---- MODULE Spec2Model ----
(***************************************************************************)
(* Model of the core of sophi-backend:                                     *)
(*   - the inference provenance chain: Inference.save (single root,        *)
(*     inference_chain), InferenceSubmission.post, the run_inference task  *)
(*     and Inference.run_inference with its five steps; Spec is the        *)
(*     program as routed by inferences/urls.py, SpecDirect adds            *)
(*     delete_inference called with its uuid, SpecChain follows chains of  *)
(*     up to MaxChainNodes inferences;                                     *)
(*   - one draw_samples call on a stored chain (SpecInferenceDraw);        *)
(*   - SamplesAllocation.set_target_proportion / set_target_number         *)
(*     (SpecAlloc);                                                        *)
(*   - the allocation primitives of inferences/utilities/sampling          *)
(*     (SpecAllocation) and the weighted draws (SpecDraw);                 *)
(*   - the strategy dispatch of SamplesAllocation.draw_samples             *)
(*     (SpecDispatch);                                                     *)
(*   - Inference.enumerate_migratory_events (SpecEvents),                  *)
(*     Inference.evaluate (SpecEvaluate) and thin_tree of                  *)
(*     inferences/utilities/vis_tree (SpecThin, SpecThinLive);             *)
(*   - the requests of the chain served concurrently (SpecConcurrent)      *)
(*     and the task run to its end (SpecLive).                             *)
(* One simulation is modelled; every stored Inference row belongs to it    *)
(* and to the user Owner.  uuid and primary key of a row are the same      *)
(* integer (both unique, never reused).                                    *)
(***************************************************************************)
EXTENDS Integers, Sequences, FiniteSets, TLC

\* ------------------------------------------------------------------ bounds
MaxNodes == 3          \* inferences ever created (primary keys 1..MaxNodes)
MaxChainNodes == 4     \* inferences ever created when the chain is followed
                       \* to a node three levels below the root
NumSamples == 1        \* candidate samples of the simulation
MaxReplicate == 2      \* largest replicate_num submitted
MaxTarget == 9         \* largest target_number, and largest target_proportion
                       \* (counted in tenths)
NumDemes == 3          \* demes of the simulation (keys 0..NumDemes-1)
NumDays == 2           \* days of the outbreak (length of the incidence lists)
MaxInc == 1            \* largest daily incidence of a deme
MaxPop == 1            \* largest population size of a deme
MaxRows == 1           \* rows of samples_df given to an allocation primitive
MaxQuota == 2          \* largest target_number given to an allocation primitive
MaxMin == 1            \* largest min_number_per_deme / min_number_per_day
PropDen == 4           \* target_proportion is given in quarters: k / PropDen
MaxPool == 2           \* rows of samples_df given to a draw primitive
MaxAllocationKeys == 2 \* demes in the allocation dict given to the draw by deme
MaxSeed == 1           \* largest random_state (seeds 0..MaxSeed)
MaxTreeNodes == 4      \* nodes of an inferred tree
MaxLiveNodes == 2      \* inferences ever created when liveness or concurrent
                       \* requests are checked
MaxRequests == 2       \* requests served at the same time
MaxEvalNodes == 3      \* nodes of the inferred tree of an evaluated inference
MaxTrueEvents == 2     \* ground-truth migratory events of the simulation
MaxThinNodes == 4      \* nodes of a tree that is thinned
MaxLiveThinNodes == 4  \* nodes of a tree whose thinning is followed to its end
MaxLiveDist == 0       \* branch length of a node of such a tree
NumThinDemes == 2      \* demes of a tree that is thinned
MaxDist == 1           \* branch length of a node of a tree that is thinned
MaxThinTarget == 2     \* target_size of thin_tree
MaxMinLineage == 2     \* min_lineage_size of thin_tree

Ids == 1..MaxNodes
Samples == 1..NumSamples
Requests == 1..MaxRequests

\* --------------------------------------------------------- option values
\* Python None is the empty tuple, a stored value v is <<v>>.
None == << >>
Some(v) == << v >>
\* "x or []" for a stored list of sample ids
OrEmpty(o) == IF o = None THEN {} ELSE o[1]

NoHead == 0            \* head IS NULL

Owner == "owner"
Users == {"owner", "other"}

PENDING == "PENDING"
RUNNING == "RUNNING"
SUCCESS == "SUCCESS"
FAILED == "FAILED"

OnlyOneRoot == "Only one root inference is allowed."
\* django.db.IntegrityError of a violated foreign key on head.
IntegrityError == "IntegrityError"

VARIABLES
    rows,        \* the Inference table: primary key -> row
    nextId,      \* next primary key (auto-increment)
    pc,          \* position of the run_inference task of each inference
    inference,   \* per task: the Inference instance the task loaded and
                 \* works on (None when the task holds none)
    head_cache,  \* per task: the head object as cached on the task's object
                 \* from pick-up until the draw has used it (None or
                 \* Some(row of the head as it was read))
    response,    \* outcome of the last request / model operation
    target_proportion,  \* SamplesAllocation.target_proportion: None or
                        \* Some(tenths)
    target_number,      \* SamplesAllocation.target_number: None or Some(n)
    call,        \* the function of the sampling / tree code being called,
                 \* with its arguments
    result,      \* what that call returned or raised
    result2,     \* what the same call returned or raised when made again
    np_random,   \* number of values the process-wide numpy generator has
                 \* yielded
    inflight     \* per request being served: how far its handler has got

vars == << rows, nextId, pc, inference, head_cache, response, target_proportion,
           target_number, call, result, result2, np_random, inflight >>
allocVars == << target_proportion, target_number >>
callVars == << call, result, result2, np_random, inflight >>

Stored == DOMAIN rows

\* ----------------------------------------------------------- Inference row
\* Field defaults of the model class.
NewRow(id, head, status, has_allocation) ==
    [ uuid |-> id,
      head |-> head,
      inference_chain |-> << >>,
      status |-> status,
      samples_allocation |-> has_allocation,
      sample_ids |-> None,
      inferred_tree_file |-> FALSE,
      inferred_migratory_events |-> FALSE,
      inferred_tree_json |-> FALSE,
      evaluations |-> FALSE ]

\* Inference.objects.filter(simulation=..., head__isnull=True)
Roots(table) == { i \in DOMAIN table : table[i].head = NoHead }

\* Inference.save without the guard of the creating branch.
SaveRaisesNoCreateGuard(table, pk, obj, adding) ==
    IF adding
    THEN FALSE
    ELSE obj.head = NoHead /\ (Roots(table) \ {pk}) # {}

\* Inference.save without the guard of the updating branch.
SaveRaisesNoUpdateGuard(table, pk, obj, adding) ==
    IF adding
    THEN obj.head = NoHead /\ Roots(table) # {}
    ELSE FALSE

\* The two guards of Inference.save: TRUE when ValidationError is raised.
SaveRaises(table, pk, obj, adding) ==
    IF adding
    THEN obj.head = NoHead /\ Roots(table) # {}
    ELSE obj.head = NoHead /\ (Roots(table) \ {pk}) # {}

\* inference_chain built from the head's uuid instead of the head's chain.
PopulateChainFromHeadUuid(table, obj) ==
    IF obj.head = NoHead
    THEN << obj.uuid >>
    ELSE << table[obj.head].uuid, obj.uuid >>

\* inference_chain as populated by Inference.save.
PopulateChain(table, obj) ==
    IF obj.head = NoHead
    THEN << obj.uuid >>
    ELSE Append(table[obj.head].inference_chain, obj.uuid)

\* super().save(): UPDATE of the row with this primary key, INSERT when no
\* row has it.
WriteRow(table, pk, obj) ==
    [ i \in (DOMAIN table) \cup {pk} |-> IF i = pk THEN obj ELSE table[i] ]

\* Inference.save for an object that passes validation and whose head is
\* read from the table.
Save(table, pk, obj) ==
    WriteRow(table, pk, [ obj EXCEPT !.inference_chain = PopulateChain(table, obj) ])

\* save() of an instance that was loaded earlier raises: ValidationError
\* from the guard of the updating branch, or, when no row has the primary
\* key any more, IntegrityError from the INSERT that super().save() then
\* issues with a head that is not stored.
SaveFails(table, pk, obj) ==
    \/ SaveRaises(table, pk, obj, FALSE)
    \/ /\ pk \notin DOMAIN table
       /\ obj.head # NoHead
       /\ obj.head \notin DOMAIN table

\* save(update_fields=["status"]) raises: ValidationError from the same
\* guard, or DatabaseError when the UPDATE affects no row.
SaveStatusFails(table, pk, obj) ==
    \/ SaveRaises(table, pk, obj, FALSE)
    \/ pk \notin DOMAIN table

\* save(update_fields=["status"]): only the status column is written.
SaveStatus(table, pk, status) ==
    [ table EXCEPT ![pk].status = status ]

\* The head chain of a stored row, nearest ancestor first
\* (Inference.head followed up to the root).
RECURSIVE HeadWalk(_, _)
HeadWalk(table, h) ==
    IF h = NoHead \/ h \notin DOMAIN table
    THEN << >>
    ELSE << h >> \o HeadWalk(table, table[h].head)

Ancestors(table, i) ==
    LET w == HeadWalk(table, table[i].head) IN { w[k] : k \in 1..Len(w) }

\* A delete that removes the row alone and leaves its descendants.
CascadeOfRowOnly(table, i) == {i}

\* Rows removed with i by on_delete=CASCADE on head.
CascadeOf(table, i) ==
    {i} \cup { j \in DOMAIN table : i \in Ancestors(table, j) }

Reply(op, target, code, error) ==
    [ op |-> op, target |-> target, code |-> code, error |-> error ]

\* `target` is the inference a request acted on or was refused for by a rule
\* about that inference; it is NoHead when the request was rejected before
\* any inference was examined (not found, not authorised, malformed).
\* No response is waiting to be returned to a client.
NoReply == Reply("none", 0, 0, "")

\* A request slot whose handler is not running.
Idle == [ op |-> "none" ]

\* No handler is between two of its statements.
Quiet == \A r \in Requests : inflight[r] = Idle

\* Rows a handler that is being served has yet to insert.
ToInsert(req) ==
    IF req.op = "create" THEN 1
    ELSE IF req.op \in {"submit", "insert"} THEN req.left
    ELSE 0

RECURSIVE ReservedUpTo(_, _)
ReservedUpTo(slots, r) ==
    IF r = 0 THEN 0 ELSE ToInsert(slots[r]) + ReservedUpTo(slots, r - 1)

\* Primary keys the handlers being served will still use.
Reserved == ReservedUpTo(inflight, MaxRequests)

InitInference ==
    /\ inflight = [ r \in Requests |-> Idle ]
    /\ rows = << >>
    /\ nextId = 1
    /\ pc = [ i \in Ids |-> "none" ]
    /\ inference = [ i \in Ids |-> None ]
    /\ head_cache = [ i \in Ids |-> None ]
    /\ response = NoReply

\* No function of the sampling or tree code is being called.
NoCall == [ function |-> "none" ]
NotRun == [ kind |-> "none" ]

InitCall ==
    /\ call = NoCall
    /\ result = NotRun
    /\ result2 = NotRun
    /\ np_random = 0

Init ==
    /\ InitInference
    /\ InitCall
    /\ target_proportion = None
    /\ target_number = None

\* A root inference is created (Inference(head=None, ...).save()): the row
\* is stored with the status it is given, PENDING (the field's default)
\* with a samples allocation or SUCCESS as a completed placeholder.  save
\* dispatches no task: a root stays as it was stored.  A ValidationError
\* that nothing catches is reported as code 500.
CreateRoot(has_allocation) ==
    /\ response = NoReply
    /\ Quiet
    /\ nextId <= Len(pc)
    /\ LET obj == NewRow(nextId, NoHead,
                         IF has_allocation THEN PENDING ELSE SUCCESS,
                         has_allocation)
       IN IF SaveRaises(rows, nextId, obj, TRUE)
          THEN /\ response' = Reply("create", NoHead, 500, OnlyOneRoot)
               /\ UNCHANGED << rows, nextId >>
          ELSE /\ rows' = Save(rows, nextId, obj)
               /\ nextId' = nextId + 1
               /\ response' = Reply("create", NoHead, 201, "")
    /\ UNCHANGED pc
    /\ UNCHANGED << inference, head_cache, allocVars, callVars >>

\* InferenceSubmission.post with inference_specs.head = h, replicate_num = k
\* and sampling_specs present or not, up to the replicate loop: the head is
\* looked up and replicate_num is validated.
SubmitChecks(r, h, k, has_allocation) ==
    /\ response = NoReply
    /\ inflight[r] = Idle
    /\ nextId + Reserved + k - 1 <= Len(pc)
    /\ IF h = NoHead
       THEN /\ response' = Reply("submit", NoHead, 400, "'head' field is required for inference submission.")
            /\ UNCHANGED inflight
       ELSE IF h \notin Stored
       THEN /\ response' = Reply("submit", NoHead, 404, "Not found.")
            /\ UNCHANGED inflight
       ELSE IF k < 1
       THEN /\ response' = Reply("submit", NoHead, 400, "'replicate_num' must be >= 1.")
            /\ UNCHANGED inflight
       ELSE /\ inflight' = [ inflight EXCEPT ![r] =
                   [ op |-> "submit", head |-> h, left |-> k,
                     has_allocation |-> has_allocation ] ]
            /\ UNCHANGED response
    /\ UNCHANGED << rows, nextId, pc, inference, head_cache, allocVars,
                    call, result, result2, np_random >>

\* InferenceSubmission.post, one iteration of the replicate loop, first
\* part: inference_serializer.is_valid() looks the head up by primary key;
\* the view answers 400 when no row has it, otherwise the serializer keeps
\* the head object it has read.  What earlier iterations inserted stays.
SubmitValidates(r) ==
    /\ response = NoReply
    /\ inflight[r].op = "submit"
    /\ LET h == inflight[r].head
       IN IF h \notin Stored
          THEN /\ response' = Reply("submit", NoHead, 400, "Invalid pk - object does not exist.")
               /\ inflight' = [ inflight EXCEPT ![r] = Idle ]
          ELSE /\ inflight' = [ inflight EXCEPT ![r] =
                      [ op |-> "insert", head |-> h, left |-> inflight[r].left,
                        has_allocation |-> inflight[r].has_allocation,
                        head_chain |-> rows[h].inference_chain ] ]
               /\ UNCHANGED response
    /\ UNCHANGED << rows, nextId, pc, inference, head_cache, allocVars, call, result, result2, np_random >>

\* The same iteration, second part: inference_serializer.save() populates
\* the chain from the head object the serializer holds and inserts the row;
\* when the head row has been deleted since is_valid() the INSERT violates
\* the foreign key on head, the IntegrityError is not caught (code 500),
\* no row is inserted and no task is published.  Otherwise, with a samples
\* allocation, the task of the replicate is published, and after the last
\* replicate the view answers 201.
SubmitSaves(r) ==
    /\ response = NoReply
    /\ inflight[r].op = "insert"
    /\ LET h == inflight[r].head
           a == inflight[r].has_allocation
           obj == NewRow(nextId, h, IF a THEN PENDING ELSE SUCCESS, a)
           held == (h :> [ uuid |-> h, inference_chain |-> inflight[r].head_chain ])
       IN IF h \notin Stored
          THEN /\ response' = Reply("submit", NoHead, 500, IntegrityError)
               /\ inflight' = [ inflight EXCEPT ![r] = Idle ]
               /\ UNCHANGED << rows, nextId, pc >>
          ELSE /\ rows' = WriteRow(rows, nextId,
                              [ obj EXCEPT !.inference_chain = PopulateChain(held, obj) ])
               /\ nextId' = nextId + 1
               /\ pc' = [ pc EXCEPT ![nextId] = IF a THEN "queued" ELSE "none" ]
               /\ IF inflight[r].left = 1
                  THEN /\ response' = Reply("submit", h, 201, "")
                       /\ inflight' = [ inflight EXCEPT ![r] = Idle ]
                  ELSE /\ inflight' = [ inflight EXCEPT ![r] =
                              [ op |-> "submit", head |-> h,
                                left |-> inflight[r].left - 1,
                                has_allocation |-> a ] ]
                       /\ UNCHANGED response
    /\ UNCHANGED << inference, head_cache, allocVars, call, result, result2, np_random >>

\* An existing inference is loaded, its head set to None, and saved.
SetHeadNull(i) ==
    /\ response = NoReply
    /\ Quiet
    /\ i \in Stored
    /\ LET obj == [ rows[i] EXCEPT !.head = NoHead ]
       IN IF SaveRaises(rows, i, obj, FALSE)
          THEN /\ response' = Reply("update", i, 500, OnlyOneRoot)
               /\ UNCHANGED rows
          ELSE /\ rows' = Save(rows, i, obj)
               /\ response' = Reply("update", i, 200, "")
    /\ UNCHANGED << nextId, pc, inference, head_cache, allocVars, callVars >>

\* ------------------------------------------------------ run_inference task
StepOrder == << "draw", "dta", "events", "json", "evaluate" >>

Steps == { StepOrder[k] : k \in 1..Len(StepOrder) }

\* run_inference with run_dta_method and enumerate_migratory_events swapped.
AfterStepSwapped(step) ==
    CASE step = "draw" -> "events"
      [] step = "events" -> "dta"
      [] step = "dta" -> "json"
      [] step = "json" -> "evaluate"
      [] step = "evaluate" -> "finish"

\* What follows a completed step: the next step, or the final status update.
AfterStep(step) ==
    CASE step = "draw" -> "dta"
      [] step = "dta" -> "events"
      [] step = "events" -> "json"
      [] step = "json" -> "evaluate"
      [] step = "evaluate" -> "finish"

\* The task picks the inference up: Inference.objects.get, status RUNNING,
\* save().  A missing row ends the task (DoesNotExist is logged); a save
\* that raises takes the task to its handler.  The save reads self.head,
\* which stays cached on the task's object from then on.
TaskStart(i) ==
    /\ response = NoReply
    /\ pc[i] = "queued"
    /\ IF i \notin Stored
       THEN /\ pc' = [ pc EXCEPT ![i] = "done" ]
            /\ UNCHANGED << rows, inference, head_cache >>
       ELSE LET obj == [ rows[i] EXCEPT !.status = RUNNING ]
            IN IF SaveFails(rows, i, obj)
               THEN /\ pc' = [ pc EXCEPT ![i] = "raised" ]
                    /\ inference' = [ inference EXCEPT ![i] = Some(obj) ]
                    /\ UNCHANGED << rows, head_cache >>
               ELSE /\ rows' = Save(rows, i, obj)
                    /\ inference' = [ inference EXCEPT ![i] = Some(rows'[i]) ]
                    /\ pc' = [ pc EXCEPT ![i] = "draw" ]
                    /\ head_cache' = [ head_cache EXCEPT ![i] =
                          IF obj.head = NoHead THEN None
                          ELSE Some(rows[obj.head]) ]
    /\ UNCHANGED << nextId, response, allocVars, callVars >>

\* get_previous_samples that reads the head only and does not walk further up.
PreviousSamplesHeadOnly(table, cached, head) ==
    IF head = NoHead THEN {} ELSE OrEmpty(cached[1].sample_ids)

\* current = current.head on an object whose head is not cached: the row
\* with primary key h is fetched.  TRUE when the walk from h to the root
\* meets a key that no row has (DoesNotExist is raised).
RECURSIVE HeadMissing(_, _)
HeadMissing(table, h) ==
    /\ h # NoHead
    /\ \/ h \notin DOMAIN table
       \/ HeadMissing(table, table[h].head)

\* The sample_ids stored on the row h and on the rows above it.
RECURSIVE SamplesFrom(_, _)
SamplesFrom(table, h) ==
    IF h = NoHead \/ h \notin DOMAIN table
    THEN {}
    ELSE OrEmpty(table[h].sample_ids) \cup SamplesFrom(table, table[h].head)

\* Inference.get_previous_samples on an object whose head was read before
\* (`cached`, the head object as it was read): the sample_ids of the cached
\* head, then the sample_ids of the rows above it as they are stored now,
\* each fetched by the head_id of the object below it.
PreviousSamples(table, cached, head) ==
    IF head = NoHead
    THEN {}
    ELSE OrEmpty(cached[1].sample_ids) \cup SamplesFrom(table, cached[1].head)

\* Inference.draw_samples: the allocation's draw minus the previous samples.
FilterDrawn(drawn, previous) == drawn \ previous

\* The precondition a step checks before doing its work (it raises otherwise).
CanRun(obj, step) ==
    CASE step = "draw" -> obj.samples_allocation
      [] step = "dta" -> obj.sample_ids # None
      [] step \in {"events", "json", "evaluate"} -> obj.inferred_tree_file

\* The object after step `step` has set its field, given the allocation's
\* draw.
StepResult(table, cached, obj, step, drawn) ==
    CASE step = "draw" ->
            [ obj EXCEPT !.sample_ids =
                Some(FilterDrawn(drawn, PreviousSamples(table, cached, obj.head))) ]
      [] step = "dta" -> [ obj EXCEPT !.inferred_tree_file = TRUE ]
      [] step = "events" -> [ obj EXCEPT !.inferred_migratory_events = TRUE ]
      [] step = "json" -> [ obj EXCEPT !.inferred_tree_json = TRUE ]
      [] step = "evaluate" -> [ obj EXCEPT !.evaluations = TRUE ]

\* One step of Inference.run_inference does its work, sets its field on the
\* task's object and saves it.  When the save raises nothing is stored and
\* the except clause of run_inference is entered.  The draw returns only
\* when the walk of get_previous_samples finds every row above the head.
StepReturns(i) ==
    /\ response = NoReply
    /\ pc[i] \in Steps
    /\ CanRun(inference[i][1], pc[i])
    /\ (pc[i] = "draw" /\ head_cache[i] # None)
          => ~HeadMissing(rows, head_cache[i][1].head)
    /\ \E drawn \in (IF pc[i] = "draw" THEN SUBSET Samples ELSE {{}}) :
         LET obj == StepResult(rows, head_cache[i], inference[i][1], pc[i], drawn)
         IN /\ inference' = [ inference EXCEPT ![i] = Some(obj) ]
            /\ IF SaveFails(rows, i, obj)
               THEN /\ pc' = [ pc EXCEPT ![i] = "except" ]
                    /\ UNCHANGED rows
               ELSE /\ pc' = [ pc EXCEPT ![i] = AfterStep(pc[i]) ]
                    /\ rows' = WriteRow(rows, i, obj)
    /\ head_cache' = [ head_cache EXCEPT ![i] = None ]
    /\ UNCHANGED << nextId, response, allocVars, callVars >>

\* The fields the steps of run_inference store.
Artifacts(obj) ==
    << obj.sample_ids, obj.inferred_tree_file, obj.inferred_migratory_events,
       obj.inferred_tree_json, obj.evaluations >>

\* The work of one step raises before it saves anything: the except clause
\* of run_inference is entered.
StepRaises(i) ==
    /\ response = NoReply
    /\ pc[i] \in Steps
    /\ pc' = [ pc EXCEPT ![i] = "except" ]
    /\ head_cache' = [ head_cache EXCEPT ![i] = None ]
    /\ UNCHANGED << rows, nextId, inference, response, allocVars, callVars >>

\* An except clause that also discards what the completed steps stored.
ExceptClauseRollback(i) ==
    /\ response = NoReply
    /\ pc[i] = "except"
    /\ LET obj == [ inference[i][1] EXCEPT !.status = FAILED,
                                           !.sample_ids = None,
                                           !.inferred_tree_file = FALSE,
                                           !.inferred_migratory_events = FALSE,
                                           !.inferred_tree_json = FALSE,
                                           !.evaluations = FALSE ]
       IN /\ inference' = [ inference EXCEPT ![i] = Some(obj) ]
          /\ IF SaveFails(rows, i, obj)
             THEN UNCHANGED rows
             ELSE rows' = WriteRow(rows, i, obj)
    /\ pc' = [ pc EXCEPT ![i] = "raised" ]
    /\ UNCHANGED << nextId, head_cache, response, allocVars, callVars >>

\* An except clause that neither stores FAILED nor re-raises: the task ends
\* with the status it had.
ExceptClauseSwallowed(i) ==
    /\ response = NoReply
    /\ pc[i] = "except"
    /\ pc' = [ pc EXCEPT ![i] = "done" ]
    /\ inference' = [ inference EXCEPT ![i] = None ]
    /\ UNCHANGED << rows, nextId, head_cache, response, allocVars, callVars >>

\* The except clause of Inference.run_inference: status FAILED on the task's
\* object, save(), and the exception is raised to the task; when this save
\* raises, its exception reaches the task instead and nothing is stored.
ExceptClause(i) ==
    /\ response = NoReply
    /\ pc[i] = "except"
    /\ LET obj == [ inference[i][1] EXCEPT !.status = FAILED ]
       IN /\ inference' = [ inference EXCEPT ![i] = Some(obj) ]
          /\ IF SaveFails(rows, i, obj)
             THEN UNCHANGED rows
             ELSE rows' = WriteRow(rows, i, obj)
    /\ pc' = [ pc EXCEPT ![i] = "raised" ]
    /\ UNCHANGED << nextId, head_cache, response, allocVars, callVars >>

\* A handler that puts the failed inference back in the queue.
TaskHandlesRequeue(i) ==
    /\ response = NoReply
    /\ pc[i] = "raised"
    /\ LET obj == [ inference[i][1] EXCEPT !.status = PENDING ]
       IN IF SaveStatusFails(rows, i, obj)
          THEN UNCHANGED rows
          ELSE rows' = SaveStatus(rows, i, PENDING)
    /\ pc' = [ pc EXCEPT ![i] = "queued" ]
    /\ inference' = [ inference EXCEPT ![i] = None ]
    /\ UNCHANGED << nextId, head_cache, response, allocVars, callVars >>

\* The task's handler catches the exception that reached it and stores
\* FAILED with save(update_fields=["status"]); when that save raises, the
\* exception is logged and dropped.  The task is over.
TaskHandles(i) ==
    /\ response = NoReply
    /\ pc[i] = "raised"
    /\ LET obj == [ inference[i][1] EXCEPT !.status = FAILED ]
       IN IF SaveStatusFails(rows, i, obj)
          THEN UNCHANGED rows
          ELSE rows' = SaveStatus(rows, i, FAILED)
    /\ pc' = [ pc EXCEPT ![i] = "done" ]
    /\ inference' = [ inference EXCEPT ![i] = None ]
    /\ UNCHANGED << nextId, head_cache, response, allocVars, callVars >>

\* All five steps returned: status SUCCESS, save().  The save is inside the
\* try of run_inference: when it raises, the except clause is entered.
Finish(i) ==
    /\ response = NoReply
    /\ pc[i] = "finish"
    /\ LET obj == [ inference[i][1] EXCEPT !.status = SUCCESS ]
       IN IF SaveFails(rows, i, obj)
          THEN /\ pc' = [ pc EXCEPT ![i] = "except" ]
               /\ inference' = [ inference EXCEPT ![i] = Some(obj) ]
               /\ UNCHANGED rows
          ELSE /\ pc' = [ pc EXCEPT ![i] = "done" ]
               /\ inference' = [ inference EXCEPT ![i] = None ]
               /\ rows' = WriteRow(rows, i, obj)
    /\ UNCHANGED << nextId, head_cache, response, allocVars, callVars >>

\* ---------------------------------------------------------- delete_inference
\* A filter that looks at the direct children only (head = uuid).
ProtectedChildrenOnly(table, uuid) ==
    { j \in DOMAIN table :
        /\ table[j].status \in {PENDING, RUNNING}
        /\ table[j].head = uuid }

\* Inference.objects.filter(simulation=..., status__in=[PENDING, RUNNING],
\*                          inference_chain__contains=[uuid])
ProtectedDownstream(table, uuid) ==
    { j \in DOMAIN table :
        /\ table[j].status \in {PENDING, RUNNING}
        /\ \E k \in 1..Len(table[j].inference_chain) :
              table[j].inference_chain[k] = uuid }

DeleteRows(table, gone) == [ j \in (DOMAIN table) \ gone |-> table[j] ]

\* A DELETE request for delete-inference/<inference_uuid>/ as the URL
\* configuration routes it: the view is called with the keyword argument
\* inference_uuid, which delete_inference(request, uuid) does not accept;
\* the TypeError is answered with code 500 and nothing is deleted.
DeleteRequest(i, user) ==
    /\ response = NoReply
    /\ Quiet
    /\ response' = Reply("delete", NoHead, 500, "delete_inference() got an unexpected keyword argument 'inference_uuid'")
    /\ UNCHANGED << rows, nextId, pc, inference, head_cache, allocVars, callVars >>

\* delete_inference(request, uuid) called with the uuid of inference i by
\* `user`.
DeleteInference(i, user) ==
    /\ response = NoReply
    /\ Quiet
    /\ IF i \notin Stored
       THEN /\ response' = Reply("delete", NoHead, 404, "Not found.")
            /\ UNCHANGED rows
       ELSE IF user # Owner
       THEN /\ response' = Reply("delete", NoHead, 403, "Not authorized to delete this inference")
            /\ UNCHANGED rows
       ELSE IF rows[i].status \notin {SUCCESS, FAILED}
       THEN /\ response' = Reply("delete", i, 400, "Can only delete completed or failed inferences")
            /\ UNCHANGED rows
       ELSE IF ProtectedDownstream(rows, rows[i].uuid) # {}
       THEN /\ response' = Reply("delete", i, 400, "Cannot delete this inference because it has pending or running descendants")
            /\ UNCHANGED rows
       ELSE /\ rows' = DeleteRows(rows, CascadeOf(rows, i))
            /\ response' = Reply("delete", i, 204, "")
    /\ UNCHANGED << nextId, pc, inference, head_cache, allocVars, callVars >>

\* The response of the last request is returned to the client.
Deliver ==
    /\ response # NoReply
    /\ response' = NoReply
    /\ UNCHANGED << rows, nextId, pc, inference, head_cache, allocVars, callVars >>

\* The program as it is served: one request at a time, the tasks of the
\* worker running between the statements of a request.
Next ==
    \/ Deliver
    \/ \E a \in BOOLEAN : CreateRoot(a)
    \/ \E h \in {NoHead} \cup Ids, k \in 0..MaxReplicate, a \in BOOLEAN :
          Quiet /\ SubmitChecks(1, h, k, a)
    \/ SubmitValidates(1)
    \/ SubmitSaves(1)
    \/ \E i \in Ids : SetHeadNull(i)
    \/ \E i \in Ids : TaskStart(i)
    \/ \E i \in Ids : StepReturns(i)
    \/ \E i \in Ids : StepRaises(i)
    \/ \E i \in Ids : ExceptClause(i)
    \/ \E i \in Ids : TaskHandles(i)
    \/ \E i \in Ids : Finish(i)
    \/ \E i \in Ids, u \in Users : DeleteRequest(i, u)

Spec == Init /\ [][Next]_vars

\* The same operations with the view function delete_inference called
\* with the argument it declares (uuid).
NextDirect ==
    \/ Deliver
    \/ \E a \in BOOLEAN : CreateRoot(a)
    \/ \E h \in {NoHead} \cup Ids, k \in 0..MaxReplicate, a \in BOOLEAN :
          Quiet /\ SubmitChecks(1, h, k, a)
    \/ SubmitValidates(1)
    \/ SubmitSaves(1)
    \/ \E i \in Ids : SetHeadNull(i)
    \/ \E i \in Ids : TaskStart(i)
    \/ \E i \in Ids : StepReturns(i)
    \/ \E i \in Ids : StepRaises(i)
    \/ \E i \in Ids : ExceptClause(i)
    \/ \E i \in Ids : TaskHandles(i)
    \/ \E i \in Ids : Finish(i)
    \/ \E i \in Ids, u \in Users : DeleteRequest(i, u)
    \/ \E i \in Ids, u \in Users : DeleteInference(i, u)

SpecDirect == Init /\ [][NextDirect]_vars

\* The chain followed to a node three levels below the root: room for
\* MaxChainNodes inferences, submissions of one replicate each, updates of
\* the head, and a worker that runs one task at a time (a task is picked up
\* when no other task is between its pick-up and its end).
ChainIds == 1..MaxChainNodes

InitChain ==
    /\ InitCall
    /\ target_proportion = None
    /\ target_number = None
    /\ inflight = [ r \in Requests |-> Idle ]
    /\ rows = << >>
    /\ nextId = 1
    /\ pc = [ i \in ChainIds |-> "none" ]
    /\ inference = [ i \in ChainIds |-> None ]
    /\ head_cache = [ i \in ChainIds |-> None ]
    /\ response = NoReply

\* No task is between its pick-up and its end.
WorkerFree == \A j \in DOMAIN pc : pc[j] \in {"none", "queued", "done"}

NextChain ==
    \/ Deliver
    \/ \E a \in BOOLEAN : CreateRoot(a)
    \/ \E h \in {NoHead} \cup ChainIds, a \in BOOLEAN :
          Quiet /\ SubmitChecks(1, h, 1, a)
    \/ SubmitValidates(1)
    \/ SubmitSaves(1)
    \/ \E i \in ChainIds : WorkerFree /\ TaskStart(i)
    \/ \E i \in ChainIds : StepReturns(i)
    \/ \E i \in ChainIds : StepRaises(i)
    \/ \E i \in ChainIds : ExceptClause(i)
    \/ \E i \in ChainIds : TaskHandles(i)
    \/ \E i \in ChainIds : Finish(i)
    \/ \E i \in ChainIds : SetHeadNull(i)

SpecChain == InitChain /\ [][NextChain]_vars

\* ------------------------------------------------------ concurrent requests
\* The requests are served by several processes and no handler runs in a
\* transaction as a whole: a query and the write that follows it are
\* separate steps, and steps of other requests and tasks take place between
\* them.  The view
\* functions are called with the arguments they declare.

\* Inference.save of a new root, first part: the query for an existing root.
SaveChecks(r, has_allocation) ==
    /\ response = NoReply
    /\ inflight[r] = Idle
    /\ nextId + Reserved <= Len(pc)
    /\ LET obj == NewRow(nextId, NoHead,
                         IF has_allocation THEN PENDING ELSE SUCCESS,
                         has_allocation)
       IN IF SaveRaises(rows, nextId, obj, TRUE)
          THEN /\ response' = Reply("create", NoHead, 500, OnlyOneRoot)
               /\ UNCHANGED inflight
          ELSE /\ inflight' = [ inflight EXCEPT ![r] =
                      [ op |-> "create", has_allocation |-> has_allocation ] ]
               /\ UNCHANGED response
    /\ UNCHANGED << rows, nextId, pc, inference, head_cache, allocVars, call, result, result2, np_random >>

\* Inference.save of a new root, second part: the chain is populated and
\* super().save() inserts the row.  No task is dispatched for it.
SaveInserts(r) ==
    /\ response = NoReply
    /\ inflight[r].op = "create"
    /\ LET a == inflight[r].has_allocation
           obj == NewRow(nextId, NoHead, IF a THEN PENDING ELSE SUCCESS, a)
       IN rows' = Save(rows, nextId, obj)
    /\ UNCHANGED pc
    /\ nextId' = nextId + 1
    /\ response' = Reply("create", NoHead, 201, "")
    /\ inflight' = [ inflight EXCEPT ![r] = Idle ]
    /\ UNCHANGED << inference, head_cache, allocVars, call, result, result2, np_random >>

\* delete_inference, get_object_or_404 and the two checks made on the
\* instance it returns (inference.user, inference.status): they read the
\* loaded object, not the table.
DeleteLoads(r, i, user) ==
    /\ response = NoReply
    /\ inflight[r] = Idle
    /\ IF i \notin Stored
       THEN /\ response' = Reply("delete", NoHead, 404, "Not found.")
            /\ UNCHANGED inflight
       ELSE IF user # Owner
       THEN /\ response' = Reply("delete", NoHead, 403, "Not authorized to delete this inference")
            /\ UNCHANGED inflight
       ELSE IF rows[i].status \notin {SUCCESS, FAILED}
       THEN /\ response' = Reply("delete", i, 400, "Can only delete completed or failed inferences")
            /\ UNCHANGED inflight
       ELSE /\ inflight' = [ inflight EXCEPT ![r] =
                   [ op |-> "delete", target |-> i, uuid |-> rows[i].uuid ] ]
            /\ UNCHANGED response
    /\ UNCHANGED << rows, nextId, pc, inference, head_cache, allocVars, call, result, result2, np_random >>

\* delete_inference, protected_downstream_inferences.exists(): the query
\* for in-flight descendants, on the table as it is now.
DeleteChecks(r) ==
    /\ response = NoReply
    /\ inflight[r].op = "delete"
    /\ IF ProtectedDownstream(rows, inflight[r].uuid) # {}
       THEN /\ response' = Reply("delete", inflight[r].target, 400, "Cannot delete this inference because it has pending or running descendants")
            /\ inflight' = [ inflight EXCEPT ![r] = Idle ]
       ELSE /\ inflight' = [ inflight EXCEPT ![r] =
                   [ op |-> "collect", target |-> inflight[r].target,
                     collected |-> { inflight[r].target },
                     batch |-> { inflight[r].target } ] ]
            /\ UNCHANGED response
    /\ UNCHANGED << rows, nextId, pc, inference, head_cache, allocVars, call, result, result2, np_random >>

\* inference.delete(), Collector.collect: one SELECT of the rows whose head
\* is in the batch collected last (on_delete=CASCADE); the rows found are
\* the next batch, and the collection ends with the SELECT that finds none.
DeleteCollects(r) ==
    /\ response = NoReply
    /\ inflight[r].op = "collect"
    /\ LET found == { j \in Stored : rows[j].head \in inflight[r].batch }
                        \ inflight[r].collected
       IN inflight' = [ inflight EXCEPT ![r] =
             IF found = {}
             THEN [ op |-> "remove", target |-> inflight[r].target,
                    collected |-> inflight[r].collected ]
             ELSE [ op |-> "collect", target |-> inflight[r].target,
                    collected |-> inflight[r].collected \cup found,
                    batch |-> found ] ]
    /\ UNCHANGED << rows, nextId, response, pc, inference, head_cache, allocVars, call, result, result2, np_random >>

\* inference.delete(), Collector.delete: the collected rows are deleted in
\* one transaction.  A stored row that was not collected and whose head is
\* one of the collected rows violates the foreign key on head: the
\* transaction is rolled back, nothing is deleted and the IntegrityError,
\* which nothing catches, is answered with code 500.  Otherwise the view
\* answers 204.
DeleteRemoves(r) ==
    /\ response = NoReply
    /\ inflight[r].op = "remove"
    /\ LET gone == inflight[r].collected
       IN IF \E j \in Stored \ gone : rows[j].head \in gone
          THEN /\ response' = Reply("delete", inflight[r].target, 500, IntegrityError)
               /\ UNCHANGED rows
          ELSE /\ rows' = DeleteRows(rows, gone \cap Stored)
               /\ response' = Reply("delete", inflight[r].target, 204, "")
    /\ inflight' = [ inflight EXCEPT ![r] = Idle ]
    /\ UNCHANGED << nextId, pc, inference, head_cache, allocVars, call, result, result2, np_random >>

NextConcurrent ==
    \/ Deliver
    \/ \E r \in Requests, a \in BOOLEAN : SaveChecks(r, a)
    \/ \E r \in Requests : SaveInserts(r)
    \/ \E r \in Requests, h \in {NoHead} \cup Ids, k \in 0..MaxReplicate, a \in BOOLEAN :
          SubmitChecks(r, h, k, a)
    \/ \E r \in Requests : SubmitValidates(r)
    \/ \E r \in Requests : SubmitSaves(r)
    \/ \E i \in Ids : TaskStart(i)
    \/ \E i \in Ids : StepReturns(i)
    \/ \E i \in Ids : StepRaises(i)
    \/ \E i \in Ids : ExceptClause(i)
    \/ \E i \in Ids : TaskHandles(i)
    \/ \E i \in Ids : Finish(i)
    \/ \E r \in Requests, i \in Ids, u \in Users : DeleteLoads(r, i, u)
    \/ \E r \in Requests : DeleteChecks(r)
    \/ \E r \in Requests : DeleteCollects(r)
    \/ \E r \in Requests : DeleteRemoves(r)

\* The concurrent system with at most MaxLiveNodes inferences ever created.
NextConcurrentBounded == NextConcurrent /\ nextId' <= MaxLiveNodes + 1

SpecConcurrent == Init /\ [][NextConcurrentBounded]_vars

\* A task that has been picked up takes its next step.
TaskRuns(i) ==
    \/ StepReturns(i)
    \/ StepRaises(i)
    \/ ExceptClause(i)
    \/ TaskHandles(i)
    \/ Finish(i)

\* The worker runs every task it has picked up to its end: a step that can
\* return or raise does one of the two, the except clause, the handler and
\* the final save are executed, and every response is returned.
Fairness ==
    /\ WF_vars(Deliver)
    /\ \A i \in 1..MaxLiveNodes : SF_vars(TaskRuns(i))

\* The system with at most MaxLiveNodes inferences ever created.
NextLive == NextDirect /\ nextId' <= MaxLiveNodes + 1

SpecLive == Init /\ [][NextLive]_vars /\ Fairness

\* ------------------------------------------------- Inference.draw_samples
\* draw_samples called on an inference that has just been loaded from a
\* table of stored inferences: its head is read from the table when
\* get_previous_samples follows it.

\* The inferences 1..n stored with the given heads and sample_ids; each
\* row was saved after its head.
RECURSIVE StoredChain(_, _, _)
StoredChain(n, heads, sample_ids) ==
    IF n = 0
    THEN << >>
    ELSE LET table == StoredChain(n - 1, heads, sample_ids)
         IN Save(table, n,
                 [ NewRow(n, heads[n], SUCCESS, TRUE) EXCEPT
                     !.sample_ids = sample_ids[n] ])

SampleIdValues == { None } \cup { Some(S) : S \in SUBSET Samples }

InitInferenceDraw ==
    /\ InitCall
    /\ target_proportion = None
    /\ target_number = None
    /\ inflight = [ r \in Requests |-> Idle ]
    /\ pc = [ i \in Ids |-> "none" ]
    /\ inference = [ i \in Ids |-> None ]
    /\ head_cache = [ i \in Ids |-> None ]
    /\ response = NoReply
    /\ \E n \in 1..MaxNodes :
          /\ nextId = n + 1
          /\ \E heads \in [ 1..n -> {NoHead} \cup Ids ],
                sample_ids \in [ 1..n -> SampleIdValues ] :
                /\ \A k \in 1..n : (k = 1 /\ heads[k] = NoHead)
                                      \/ (k > 1 /\ heads[k] \in 1..(k - 1))
                /\ rows = StoredChain(n, heads, sample_ids)

\* self = Inference.objects.get(pk = i); self.draw_samples(): the
\* allocation draws `drawn`, the previous samples are filtered out, the
\* rest is stored as sample_ids.
InferenceDrawSamples(i, drawn) ==
    /\ i \in Stored
    /\ LET self == rows[i]
           cached == IF self.head = NoHead THEN None
                     ELSE Some(rows[self.head])
           obj == StepResult(rows, cached, self, "draw", drawn)
       IN rows' = WriteRow(rows, i, obj)
    /\ call' = [ function |-> "draw_samples", self |-> i, drawn |-> drawn ]
    /\ UNCHANGED << nextId, pc, inference, head_cache, response, allocVars,
                    result, result2, np_random, inflight >>

NextInferenceDraw == \E i \in Ids, drawn \in SUBSET Samples : InferenceDrawSamples(i, drawn)

SpecInferenceDraw == InitInferenceDraw /\ [][NextInferenceDraw]_vars

\* ------------------------------------------------------- SamplesAllocation
TargetValues == { None } \cup { Some(v) : v \in 0..MaxTarget }

\* A SamplesAllocation as the serializer stores it: each target field holds
\* a value or is null, in any combination.
InitAlloc ==
    /\ InitInference
    /\ InitCall
    /\ target_proportion \in TargetValues
    /\ target_number \in TargetValues

\* SamplesAllocation.set_target_proportion(proportion): the argument is
\* stored as it is given, None included, and target_number is cleared.
SetTargetProportion(proportion) ==
    /\ target_proportion' = proportion
    /\ target_number' = None
    /\ response' = Reply("set_target_proportion", NoHead, 0, "")
    /\ UNCHANGED << rows, nextId, pc, inference, head_cache, callVars >>

\* SamplesAllocation.set_target_number(number): the argument is stored as it
\* is given, None included, and target_proportion is cleared.
SetTargetNumber(number) ==
    /\ target_number' = number
    /\ target_proportion' = None
    /\ response' = Reply("set_target_number", NoHead, 0, "")
    /\ UNCHANGED << rows, nextId, pc, inference, head_cache, callVars >>

NextAlloc ==
    \/ \E v \in TargetValues : SetTargetProportion(v)
    \/ \E v \in TargetValues : SetTargetNumber(v)

SpecAlloc == InitAlloc /\ [][NextAlloc]_vars

\* ------------------------------------------------- allocation primitives
\* src/inferences/utilities/sampling/spatial_allocation.py and
\* temporal_allocation.py.  A deme is an integer key, a day an index of the
\* incidence lists (first day 0), samples_df a set of rows with unique
\* sample_id.  target_proportion k stands for the float k / PropDen.
Demes == 0..(NumDemes - 1)
Days == 0..(NumDays - 1)

\* case_incidence[deme][day] and population_sizes[deme]
IncidenceTables == [ Demes -> [ Days -> 0..MaxInc ] ]
PopulationTables == [ Demes -> 0..MaxPop ]

\* DataFrames of at most k rows with columns sample_id, time, deme.
DataFrames(k) ==
    { df \in SUBSET [ sample_id : 1..k, time : Days, deme : Demes ] :
        \A r1, r2 \in df : r1.sample_id = r2.sample_id => r1 = r2 }

TargetDemeLists == { None } \cup { Some(S) : S \in SUBSET Demes }
TimeRanges ==
    { None } \cup { Some(<< tr[1], tr[2] >>) : tr \in { x \in Days \X Days : x[1] <= x[2] } }
Proportions == { None } \cup { Some(k) : k \in 0..PropDen }
Numbers == { None } \cup { Some(n) : n \in 0..MaxQuota }

\* What a call returned: the allocation, with the allocation as it was
\* before the minimum was enforced and the target_number it was computed
\* from (both None when the function returned before computing them).
Returned(value, rounded, number) ==
    [ kind |-> "return", value |-> value, rounded |-> rounded, target_number |-> number ]
Raised(exception, message) ==
    [ kind |-> "raise", exception |-> exception, message |-> message ]

NoTarget == "Either 'target_proportion' or 'target_number' must be specified."

RECURSIVE SumOver(_, _)
SumOver(f, S) ==
    IF S = {} THEN 0
    ELSE LET x == CHOOSE y \in S : TRUE IN f[x] + SumOver(f, S \ {x})

\* np.round(num / den).astype(int) for one float division: the nearest
\* integer, a tie going to the even one (a quotient that ends in .5 is a
\* float, so the division is exact where it matters).
Round(num, den) ==
    LET q == num \div den
        r == num % den
    IN IF 2 * r < den THEN q
       ELSE IF 2 * r > den THEN q + 1
       ELSE IF q % 2 = 0 THEN q ELSE q + 1

\* The float share / total, 0 < share < total, brought to the form
\* a / total * 2^e with total <= a < 2 * total: << e, a >>.
RECURSIVE Normalise(_, _, _)
Normalise(a, total, e) ==
    IF a < total THEN Normalise(2 * a, total, e - 1) ELSE << e, a >>

\* n more binary digits of r / total: << remainder, last digit >>.
RECURSIVE Digits(_, _, _, _)
Digits(r, total, digit, n) ==
    IF n = 0
    THEN << r, digit >>
    ELSE Digits((2 * r) % total, total, (2 * r) \div total, n - 1)

\* The float division share / total keeps 53 binary digits and rounds to
\* the nearest, a tie to the even digit: << e, d >> with e the exponent of
\* the quotient and d / total its error in units of the last digit kept.
QuotientError(share, total) ==
    LET norm == Normalise(share, total, 0)
        cut == Digits(norm[2] - total, total, 1, 52)
        r == cut[1]
    IN << norm[1],
          IF 2 * r < total THEN 0 - r
          ELSE IF 2 * r > total THEN total - r
          ELSE IF cut[2] = 0 THEN 0 - r ELSE total - r >>

\* The exponent of the float k + 0.5, given odd = 2 * k + 1.
RECURSIVE Exponent(_, _)
Exponent(odd, e) ==
    IF odd >= 2 ^ (e + 2) THEN Exponent(odd, e + 1) ELSE e

\* int(round((share / total) * target_number)) in float arithmetic: the
\* nearest integer of share * target_number / total; when that value ends
\* in .5 the error of the float quotient, multiplied by target_number and
\* rounded to the digits of the product, decides: the product falls below
\* the tie, above it, or on it, and on it the even integer is taken.
RoundedShare(share, total, target_number_) ==
    LET num == share * target_number_
        k == num \div total
        rem == num % total
        even == IF k % 2 = 0 THEN k ELSE k + 1
    IN IF 2 * rem < total THEN k
       ELSE IF 2 * rem > total THEN k + 1
       ELSE IF share = total THEN even
       ELSE LET err == QuotientError(share, total)
                width == total * 2 ^ (Exponent(2 * k + 1, 0 - 1) - err[1])
            IN IF 2 * target_number_ * err[2] > width THEN k + 1
               ELSE IF (IF k = 0 THEN 4 ELSE 2) * target_number_ * (0 - err[2]) > width
               THEN k
               ELSE even

\* if target_proportion is not None and target_number is None:
\*     target_number = int(target_proportion * N)
TargetNumber(target_proportion_, target_number_, N) ==
    IF target_proportion_ # None /\ target_number_ = None
    THEN Some((target_proportion_[1] * N) \div PropDen)
    ELSE target_number_

\* The allocation returned as rounded, the minimum not enforced.
EnforceMinimumNever(allocated, minimum) == allocated

\* if minimum > 0: every entry below the minimum is raised to it.
EnforceMinimum(allocated, minimum) ==
    IF minimum > 0
    THEN [ u \in DOMAIN allocated |->
             IF allocated[u] < minimum THEN minimum ELSE allocated[u] ]
    ELSE allocated

Zeros(units) == [ u \in units |-> 0 ]

\* samples_df[samples_df["deme"].isin(target_demes)]
InDemes(samples_df, demes) == { r \in samples_df : r.deme \in demes }
\* df[(df["time"] >= earliest_time) & (df["time"] <= latest_time)]
InRange(df, earliest_time, latest_time) ==
    { r \in df : r.time >= earliest_time /\ r.time <= latest_time }

uniform_sample_spatial_allocation(case_incidence, samples_df, target_proportion_, target_number_, min_number_per_deme, target_demes) ==
    LET demes == IF target_demes = None THEN DOMAIN case_incidence ELSE target_demes[1]
        df == InDemes(samples_df, demes)
        N == Cardinality(df)
        number == TargetNumber(target_proportion_, target_number_, N)
        rounded == [ d \in demes |->
                       RoundedShare(Cardinality({ r \in df : r.deme = d }), N, number[1]) ]
    IN IF N = 0 THEN Returned(Zeros(demes), None, None)
       ELSE IF number = None THEN Raised("ValueError", NoTarget)
       ELSE Returned(EnforceMinimum(rounded, min_number_per_deme), Some(rounded), number)

uniform_case_spatial_allocation(case_incidence, samples_df, target_proportion_, target_number_, min_number_per_deme, target_demes) ==
    LET demes == IF target_demes = None THEN DOMAIN case_incidence ELSE target_demes[1]
        known == demes \cap DOMAIN case_incidence
        deme_totals == [ d \in known |-> SumOver(case_incidence[d], DOMAIN case_incidence[d]) ]
        total_incidence == SumOver(deme_totals, known)
        df == InDemes(samples_df, demes)
        N == Cardinality(df)
        number == TargetNumber(target_proportion_, target_number_, N)
        rounded == [ d \in known |-> RoundedShare(deme_totals[d], total_incidence, number[1]) ]
    IN IF total_incidence = 0 THEN Returned(Zeros(demes), None, None)
       ELSE IF N = 0 THEN Returned(Zeros(demes), None, None)
       ELSE IF number = None THEN Raised("ValueError", NoTarget)
       ELSE Returned(EnforceMinimum(rounded, min_number_per_deme), Some(rounded), number)

uniform_population_spatial_allocation(population_sizes, samples_df, target_proportion_, target_number_, min_number_per_deme, target_demes) ==
    LET demes == IF target_demes = None THEN DOMAIN population_sizes ELSE target_demes[1]
        known == demes \cap DOMAIN population_sizes
        total_population == SumOver(population_sizes, known)
        df == InDemes(samples_df, demes)
        N == Cardinality(df)
        number == TargetNumber(target_proportion_, target_number_, N)
        rounded == [ d \in known |-> RoundedShare(population_sizes[d], total_population, number[1]) ]
    IN IF N = 0 THEN Returned(Zeros(demes), None, None)
       ELSE IF number = None THEN Raised("ValueError", NoTarget)
       ELSE IF known # {} /\ total_population = 0
       THEN Raised("ZeroDivisionError", "division by zero")
       ELSE Returned(EnforceMinimum(rounded, min_number_per_deme), Some(rounded), number)

even_spatial_allocation(samples_df, target_proportion_, target_number_, min_number_per_deme, target_demes) ==
    LET demes == IF target_demes = None THEN { r.deme : r \in samples_df } ELSE target_demes[1]
        df == InDemes(samples_df, demes)
        N == Cardinality(df)
        number == TargetNumber(target_proportion_, target_number_, N)
        even_alloc == number[1] \div Cardinality(demes)
        rounded == [ d \in demes |-> even_alloc ]
    IN IF N = 0 THEN Returned(Zeros(demes), None, None)
       ELSE IF number = None THEN Raised("ValueError", NoTarget)
       ELSE Returned(EnforceMinimum(rounded, min_number_per_deme), Some(rounded), number)

\* The days a temporal allocation covers: time_range, or [0 .. D-1].
Earliest(time_range) == IF time_range = None THEN 0 ELSE time_range[1][1]
Latest(time_range, D) == IF time_range = None THEN D - 1 ELSE time_range[1][2]

\* full_allocation = zeros(D); full_allocation[earliest:latest + 1] = sub
FullAllocation(sub, D) == [ t \in 0..(D - 1) |-> IF t \in DOMAIN sub THEN sub[t] ELSE 0 ]

\* len(next(iter(case_incidence.values())))
Duration(case_incidence) ==
    Cardinality(DOMAIN case_incidence[CHOOSE d \in DOMAIN case_incidence : TRUE])

uniform_sample_temporal_allocation(case_incidence, samples_df, time_range, target_proportion_, target_number_, target_demes) ==
    LET D == Duration(case_incidence)
        demes == IF target_demes = None THEN DOMAIN case_incidence ELSE target_demes[1]
        known == demes \cap DOMAIN case_incidence
        earliest_time == Earliest(time_range)
        latest_time == Latest(time_range, D)
        df == InRange(InDemes(samples_df, demes), earliest_time, latest_time)
        N == Cardinality(df)
        number == TargetNumber(target_proportion_, target_number_, N)
        \* one entry per day of the outbreak, not per day of the range
        day_alloc_sub == [ t \in 0..(D - 1) |->
                             RoundedShare(Cardinality({ r \in df : r.time = t }), N, number[1]) ]
    IN IF known = {} THEN Returned(Zeros(0..(D - 1)), None, None)
       ELSE IF N = 0 THEN Returned(Zeros(0..(D - 1)), None, None)
       ELSE IF number = None THEN Raised("ValueError", NoTarget)
       ELSE IF latest_time - earliest_time + 1 # D
       THEN Raised("ValueError", "could not broadcast input array")
       ELSE Returned(day_alloc_sub, Some(day_alloc_sub), number)

\* Incidence of each day of the range, summed over the target demes.
DailySubIncidence(case_incidence, known, earliest_time, latest_time) ==
    [ t \in earliest_time..latest_time |->
        SumOver([ d \in known |-> case_incidence[d][t] ], known) ]

uniform_case_temporal_allocation(case_incidence, samples_df, time_range, target_proportion_, target_number_, min_number_per_day, target_demes) ==
    LET D == Duration(case_incidence)
        demes == IF target_demes = None THEN DOMAIN case_incidence ELSE target_demes[1]
        known == demes \cap DOMAIN case_incidence
        earliest_time == Earliest(time_range)
        latest_time == Latest(time_range, D)
        df == InRange(InDemes(samples_df, demes), earliest_time, latest_time)
        N == Cardinality(df)
        daily_sub_incidence == DailySubIncidence(case_incidence, known, earliest_time, latest_time)
        total_sub_incidence == SumOver(daily_sub_incidence, earliest_time..latest_time)
        number == TargetNumber(target_proportion_, target_number_, N)
        rounded == [ t \in earliest_time..latest_time |->
                       RoundedShare(daily_sub_incidence[t], total_sub_incidence, number[1]) ]
    IN IF known = {} THEN Returned(Zeros(0..(D - 1)), None, None)
       ELSE IF N = 0 THEN Returned(Zeros(0..(D - 1)), None, None)
       ELSE IF total_sub_incidence = 0 THEN Returned(Zeros(0..(D - 1)), None, None)
       ELSE IF number = None THEN Raised("ValueError", NoTarget)
       ELSE Returned(FullAllocation(EnforceMinimum(rounded, min_number_per_day), D),
                     Some(rounded), number)

even_temporal_allocation(case_incidence, samples_df, time_range, target_proportion_, target_number_, min_number_per_day, target_demes) ==
    LET demes == IF target_demes = None THEN DOMAIN case_incidence ELSE target_demes[1]
        known == demes \cap DOMAIN case_incidence
        \* read from the filtered table, before it is tested for emptiness
        D == Cardinality(DOMAIN case_incidence[CHOOSE d \in known : TRUE])
        earliest_time == Earliest(time_range)
        latest_time == Latest(time_range, D)
        df == InRange(InDemes(samples_df, demes), earliest_time, latest_time)
        N == Cardinality(df)
        subrange_length == latest_time - earliest_time + 1
        daily_sub_incidence == DailySubIncidence(case_incidence, known, earliest_time, latest_time)
        total_sub_incidence == SumOver(daily_sub_incidence, earliest_time..latest_time)
        number == TargetNumber(target_proportion_, target_number_, N)
        rounded == [ t \in earliest_time..latest_time |-> Round(number[1], subrange_length) ]
    IN IF known = {} THEN Raised("StopIteration", "")
       ELSE IF N = 0 THEN Returned(Zeros(0..(D - 1)), None, None)
       ELSE IF total_sub_incidence = 0 THEN Returned(Zeros(0..(D - 1)), None, None)
       ELSE IF number = None THEN Raised("ValueError", NoTarget)
       ELSE Returned(FullAllocation(EnforceMinimum(rounded, min_number_per_day), D),
                     Some(rounded), number)

\* ---------------------------------------- calls of the allocation primitives
SpatialIncidenceCalls(name) ==
    [ function : {name}, case_incidence : IncidenceTables,
      samples_df : DataFrames(MaxRows), target_proportion : Proportions,
      target_number : Numbers, min_number_per_deme : 0..MaxMin,
      target_demes : TargetDemeLists ]

SpatialPopulationCalls ==
    [ function : {"uniform_population_spatial_allocation"},
      population_sizes : PopulationTables,
      samples_df : DataFrames(MaxRows), target_proportion : Proportions,
      target_number : Numbers, min_number_per_deme : 0..MaxMin,
      target_demes : TargetDemeLists ]

SpatialEvenCalls ==
    [ function : {"even_spatial_allocation"},
      samples_df : DataFrames(MaxRows), target_proportion : Proportions,
      target_number : Numbers, min_number_per_deme : 0..MaxMin,
      target_demes : TargetDemeLists ]

TemporalSampleCalls ==
    [ function : {"uniform_sample_temporal_allocation"}, case_incidence : IncidenceTables,
      samples_df : DataFrames(MaxRows), time_range : TimeRanges,
      target_proportion : Proportions, target_number : Numbers,
      target_demes : TargetDemeLists ]

TemporalCalls(name) ==
    [ function : {name}, case_incidence : IncidenceTables,
      samples_df : DataFrames(MaxRows), time_range : TimeRanges,
      target_proportion : Proportions, target_number : Numbers,
      min_number_per_day : 0..MaxMin, target_demes : TargetDemeLists ]

AllocationCalls ==
    SpatialIncidenceCalls("uniform_sample_spatial_allocation")
    \cup SpatialIncidenceCalls("uniform_case_spatial_allocation")
    \cup SpatialPopulationCalls
    \cup SpatialEvenCalls
    \cup TemporalSampleCalls
    \cup TemporalCalls("uniform_case_temporal_allocation")
    \cup TemporalCalls("even_temporal_allocation")

\* The result of the allocation primitive `c` calls.
Allocate(c) ==
    CASE c.function = "uniform_sample_spatial_allocation" ->
            uniform_sample_spatial_allocation(c.case_incidence, c.samples_df,
                c.target_proportion, c.target_number, c.min_number_per_deme, c.target_demes)
      [] c.function = "uniform_case_spatial_allocation" ->
            uniform_case_spatial_allocation(c.case_incidence, c.samples_df,
                c.target_proportion, c.target_number, c.min_number_per_deme, c.target_demes)
      [] c.function = "uniform_population_spatial_allocation" ->
            uniform_population_spatial_allocation(c.population_sizes, c.samples_df,
                c.target_proportion, c.target_number, c.min_number_per_deme, c.target_demes)
      [] c.function = "even_spatial_allocation" ->
            even_spatial_allocation(c.samples_df,
                c.target_proportion, c.target_number, c.min_number_per_deme, c.target_demes)
      [] c.function = "uniform_sample_temporal_allocation" ->
            uniform_sample_temporal_allocation(c.case_incidence, c.samples_df, c.time_range,
                c.target_proportion, c.target_number, c.target_demes)
      [] c.function = "uniform_case_temporal_allocation" ->
            uniform_case_temporal_allocation(c.case_incidence, c.samples_df, c.time_range,
                c.target_proportion, c.target_number, c.min_number_per_day, c.target_demes)
      [] c.function = "even_temporal_allocation" ->
            even_temporal_allocation(c.case_incidence, c.samples_df, c.time_range,
                c.target_proportion, c.target_number, c.min_number_per_day, c.target_demes)

SpatialPrimitives ==
    { "uniform_sample_spatial_allocation", "uniform_case_spatial_allocation",
      "uniform_population_spatial_allocation", "even_spatial_allocation" }
TemporalPrimitives ==
    { "uniform_sample_temporal_allocation", "uniform_case_temporal_allocation",
      "even_temporal_allocation" }

InitAllocation ==
    /\ InitInference
    /\ target_proportion = None
    /\ target_number = None
    /\ call \in AllocationCalls
    /\ result = NotRun
    /\ result2 = NotRun
    /\ np_random = 0

\* A spatial allocation primitive is called and returns or raises.
AllocateSpatial ==
    /\ call.function \in SpatialPrimitives
    /\ result = NotRun
    /\ result' = Allocate(call)
    /\ UNCHANGED << rows, nextId, pc, inference, head_cache, response, allocVars, inflight, call, result2, np_random >>

\* A temporal allocation primitive is called and returns or raises.
AllocateTemporal ==
    /\ call.function \in TemporalPrimitives
    /\ result = NotRun
    /\ result' = Allocate(call)
    /\ UNCHANGED << rows, nextId, pc, inference, head_cache, response, allocVars, inflight, call, result2, np_random >>

NextAllocation == AllocateSpatial \/ AllocateTemporal

SpecAllocation == InitAllocation /\ [][NextAllocation]_vars

\* ------------------------------------------------------- draw primitives
\* src/inferences/utilities/sampling/temporal_sampling.py and
\* spatial_sampling.py.  For the draws samples_df is the sequence of its
\* rows, in the order of the DataFrame: DataFrame.sample picks positions.
Rows(df) == { df[k] : k \in 1..Len(df) }

Seeds == { None } \cup { Some(s) : s \in 0..MaxSeed }

\* DataFrame.sample(random_state = seed) builds numpy's RandomState(seed)
\* at every call: the first doubles random_sample() then yields, for the
\* seeds 0, 1, 2 and 3, in millionths rounded down.  With total weights
\* below 778 every comparison below comes out as with the doubles.
MT19937 ==
    << << 548813, 715189, 602763, 544883, 423654, 645894, 437587, 891773, 963662, 383441 >>,
       << 417022, 720324, 114, 302332, 146755, 92338, 186260, 345560, 396767, 538816 >>,
       << 435994, 25926, 549662, 435322, 420367, 330334, 204648, 619270, 299654, 266827 >>,
       << 550797, 708147, 290904, 510827, 892946, 896293, 125585, 207242, 51467, 440809 >> >>

\* The values a generator yields.  << "double", x >> is the double
\* x / 1000000.  random_state=None uses the process-wide generator, whose
\* state is whatever the process left it in: a value of it is known by
\* where it lands, << "rank", c >> lands on the entry of rank c (modulo
\* their number) among the entries of non-zero probability.
SeededStream(seed) ==
    [ k \in 1..Len(MT19937[seed + 1]) |-> << "double", MT19937[seed + 1][k] >> ]

RECURSIVE SumTo(_, _)
SumTo(p, k) == IF k = 0 THEN 0 ELSE p[k] + SumTo(p, k - 1)

\* cdf = cumsum(p) / sum(p); cdf.searchsorted(x, side='right'): the
\* position (from 1) the value u lands on.
Lands(u, p) ==
    IF u[1] = "double"
    THEN 1 + Cardinality({ k \in 1..Len(p) :
                             SumTo(p, k) * 1000000 <= u[2] * SumTo(p, Len(p)) })
    ELSE LET nonzero == { k \in 1..Len(p) : p[k] # 0 }
             c == u[2] % Cardinality(nonzero)
         IN CHOOSE k \in nonzero : Cardinality({ j \in nonzero : j < k }) = c

\* np.unique(new, return_index=True), indices sorted: the first occurrence
\* of each value, in the order of `new`.
FirstOccurrences(new) ==
    LET keep == { j \in 1..Len(new) : \A i \in 1..(j - 1) : new[i] # new[j] }
        F[j \in 0..Len(new)] ==
            IF j = 0 THEN << >>
            ELSE IF j \in keep THEN Append(F[j - 1], new[j]) ELSE F[j - 1]
    IN F[Len(new)]

\* RandomState.choice(len(p), size, replace=False, p): as long as fewer than
\* `size` positions are found, as many values as are missing are drawn, with
\* the probability of the positions found set to zero.  Returns the
\* positions found and what is left of the stream.
RECURSIVE Choice(_, _, _, _)
Choice(p, size, found, stream) ==
    IF Len(found) >= size
    THEN [ found |-> found, stream |-> stream ]
    ELSE LET m == size - Len(found)
             taken == { found[k] : k \in 1..Len(found) }
             p0 == [ k \in 1..Len(p) |-> IF k \in taken THEN 0 ELSE p[k] ]
             new == [ j \in 1..m |-> Lands(stream[j], p0) ]
         IN Choice(p, size, found \o FirstOccurrences(new),
                   SubSeq(stream, m + 1, Len(stream)))

FewerNonZero == "Fewer non-zero entries in p than size"

\* The weights of the rows of `subset` as integers in the proportion of the
\* column "weight": weight[r] is the pair << numerator, bin count >>.
RECURSIVE CountProduct(_, _, _)
CountProduct(subset, weight, k) ==
    IF k = 0 THEN 1 ELSE weight[subset[k]][2] * CountProduct(subset, weight, k - 1)

Probabilities(subset, weight) ==
    [ k \in 1..Len(subset) |->
        weight[subset[k]][1]
          * (CountProduct(subset, weight, Len(subset)) \div weight[subset[k]][2]) ]

\* subset.sample(n=n, replace=False, weights="weight", random_state=...):
\* rows of weight zero are never picked, and n of the others must exist.
\* g is what the process-wide generator yields from now on; a seeded sample
\* leaves it alone.
Sample(subset, weight, n, random_state, g) ==
    LET p == Probabilities(subset, weight)
        nonzero == { k \in 1..Len(p) : p[k] # 0 }
        c == Choice(p, n, << >>,
                    IF random_state = None THEN g ELSE SeededStream(random_state[1]))
    IN IF Cardinality(nonzero) < n
       THEN [ raised |-> TRUE, selected |-> {}, g |-> g ]
       ELSE [ raised |-> FALSE,
              selected |-> { subset[c.found[k]] : k \in 1..Len(c.found) },
              g |-> IF random_state = None THEN c.stream ELSE g ]

\* A selection that, when the quota covers the unit, takes only the rows
\* of non-zero weight.
SelectNonZeroOnly(subset, weight, target_n, random_state, g) ==
    IF target_n >= Len(subset)
    THEN [ raised |-> FALSE,
           selected |-> { r \in Rows(subset) : weight[r][1] # 0 },
           g |-> g ]
    ELSE Sample(subset, weight, target_n, random_state, g)

\* if target_n >= len(subset): take them all; else the weighted sample.
Select(subset, weight, target_n, random_state, g) ==
    IF target_n >= Len(subset)
    THEN [ raised |-> FALSE, selected |-> Rows(subset), g |-> g ]
    ELSE Sample(subset, weight, target_n, random_state, g)

\* The loop over the units of an allocation: `items` is the sequence of the
\* pairs << unit, target_n >> in the order the code visits them.  acc is
\* what the loop has selected so far, whether a sample raised, and what the
\* process-wide generator yields from now on.
RECURSIVE SelectLoop(_, _, _, _, _)
SelectLoop(items, subset, weight, random_state, acc) ==
    IF items = << >> \/ acc.raised THEN acc
    ELSE LET u == items[1][1]
             target_n == items[1][2]
             rest == Tail(items)
             s == Select(subset[u], weight, target_n, random_state, acc.g)
         IN IF target_n <= 0 \/ subset[u] = << >>
                \/ (\A r \in Rows(subset[u]) : weight[r][1] = 0)
            THEN SelectLoop(rest, subset, weight, random_state, acc)
            ELSE SelectLoop(rest, subset, weight, random_state,
                            [ raised |-> s.raised,
                              selected |-> acc.selected \cup s.selected,
                              g |-> s.g ])

\* A dict is the sequence of its items << key, value >> in insertion order,
\* the keys distinct.
Keys(dict) == { dict[k][1] : k \in 1..Len(dict) }
Get(dict, key) == dict[CHOOSE k \in 1..Len(dict) : dict[k][1] = key][2]

\* What a draw returned, with what the process-wide generator yields after it.
Drawn(acc) ==
    [ outcome |-> IF acc.raised THEN Raised("ValueError", FewerNonZero)
                  ELSE [ kind |-> "return", value |-> acc.selected ],
      g |-> acc.g ]

NoIncidence == "Must provide `case_incidence` when weighting_strategy='cases'."
NoPopulation == "Must provide `population_sizes` when weighting_strategy='population'."

weighted_temporal_sampling(allocation, samples_df, weighting_strategy, case_incidence, random_state, g) ==
    LET InAllocation(r) == r.deme \in Keys(allocation)
        working_df == SelectSeq(samples_df, InAllocation)
        subset == [ d \in Keys(allocation) |->
                      LET OfDeme(r) == r.deme = d IN SelectSeq(working_df, OfDeme) ]
        day_count(r) == Cardinality({ x \in Rows(subset[r.deme]) : x.time = r.time })
        weight == [ r \in Rows(working_df) |->
                      CASE weighting_strategy = "cases" ->
                              << case_incidence[1][r.deme][r.time], day_count(r) >>
                        [] weighting_strategy = "even" -> << 1, day_count(r) >>
                        [] weighting_strategy = "samples" -> << 1, 1 >> ]
    IN IF weighting_strategy = "cases" /\ case_incidence = None
       THEN [ outcome |-> Raised("ValueError", NoIncidence), g |-> g ]
       ELSE Drawn(SelectLoop(allocation, subset, weight, random_state,
                             [ raised |-> FALSE, selected |-> {}, g |-> g ]))

weighted_spatial_sampling(allocation, samples_df, case_incidence, target_demes, population_sizes, weighting_strategy, random_state, g) ==
    LET InTarget(r) == r.deme \in target_demes[1]
        D == Cardinality(DOMAIN allocation)
        items == [ k \in 1..D |-> << k - 1, allocation[k - 1] >> ]
        df == IF target_demes # None THEN SelectSeq(samples_df, InTarget) ELSE samples_df
        subset == [ d \in DOMAIN allocation |->
                      LET OfDay(r) == r.time = d IN SelectSeq(df, OfDay) ]
        deme_count(r) == Cardinality({ x \in Rows(subset[r.time]) : x.deme = r.deme })
        weight == [ r \in { x \in Rows(df) : x.time \in DOMAIN allocation } |->
                      CASE weighting_strategy = "even" -> << 1, deme_count(r) >>
                        [] weighting_strategy = "cases" ->
                              << case_incidence[1][r.deme][r.time], deme_count(r) >>
                        [] weighting_strategy = "population" ->
                              << population_sizes[1][r.deme], deme_count(r) >> ]
    IN IF weighting_strategy = "cases" /\ case_incidence = None
       THEN [ outcome |-> Raised("ValueError", NoIncidence), g |-> g ]
       ELSE IF weighting_strategy = "population" /\ population_sizes = None
       THEN [ outcome |-> Raised("ValueError", NoPopulation), g |-> g ]
       ELSE Drawn(SelectLoop(items, subset, weight, random_state,
                             [ raised |-> FALSE, selected |-> {}, g |-> g ]))

\* ------------------------------------------------ the other draw primitives
\* temporal_sampling.py (earliest_N_by_deme_sampling,
\* earliest_N_temporal_sampling) and spatiotemporal_sampling.py.

\* What a draw returned or raised, with what the process-wide generator
\* yields after it.
Returns(selected, g) == [ outcome |-> [ kind |-> "return", value |-> selected ], g |-> g ]
Raises(exception, message, g) == [ outcome |-> Raised(exception, message), g |-> g ]

\* The elements of a set of integers, ascending.
RECURSIVE Ascending(_)
Ascending(S) ==
    IF S = {} THEN << >>
    ELSE LET m == CHOOSE x \in S : \A y \in S : x <= y
         IN << m >> \o Ascending(S \ {m})

\* The first 32-bit words RandomState(seed) yields, for the seeds 0, 1, 2
\* and 3: their 16 low bits (random_interval keeps the bits under a mask,
\* so these decide for tables of up to 65536 rows).
MT19937Words ==
    << << 2732, 43567, 42613, 52416, 45891, 21243, 30403, 32103, 41993, 57043 >>,
       << 62501, 33003, 12172, 5192, 32511, 50057, 43723, 7813, 52047, 21440 >>,
       << 23720, 35343, 6637, 30280, 44566, 31019, 18898, 33867, 14696, 44295 >>,
       << 5994, 1688, 11513, 59011, 48056, 25544, 39168, 25365, 11261, 19091 >> >>

\* The words a generator yields: << "word", w >> has the low bits w; a word
\* of the process-wide generator, << "rank", c >>, has the low bits c.
SeededWords(seed) ==
    [ k \in 1..Len(MT19937Words[seed + 1]) |-> << "word", MT19937Words[seed + 1][k] >> ]

\* The smallest 2^k - 1 that is >= max.
RECURSIVE MaskOf(_, _)
MaskOf(max, mask) == IF mask >= max THEN mask ELSE MaskOf(max, 2 * mask + 1)

\* random_interval(max): words are taken until one, under the mask, is
\* <= max.  dry: the words at hand ran out before that.
RECURSIVE random_interval(_, _)
random_interval(max, stream) ==
    IF max = 0 THEN [ value |-> 0, stream |-> stream, dry |-> FALSE ]
    ELSE IF stream = << >> THEN [ value |-> 0, stream |-> stream, dry |-> TRUE ]
    ELSE LET value == stream[1][2] % (MaskOf(max, 1) + 1)
         IN IF value > max
            THEN random_interval(max, Tail(stream))
            ELSE [ value |-> value, stream |-> Tail(stream), dry |-> FALSE ]

\* RandomState.shuffle: for i = n - 1 down to 1, the entries i and
\* random_interval(i) are swapped (positions counted from 0).
RECURSIVE ShuffleFrom(_, _, _)
ShuffleFrom(arr, i, stream) ==
    IF i = 0 THEN [ arr |-> arr, stream |-> stream, dry |-> FALSE ]
    ELSE LET j == random_interval(i, stream)
         IN IF j.dry
            THEN [ arr |-> arr, stream |-> j.stream, dry |-> TRUE ]
            ELSE ShuffleFrom([ arr EXCEPT ![i + 1] = arr[j.value + 1],
                                          ![j.value + 1] = arr[i + 1] ],
                             i - 1, j.stream)

\* RandomState.permutation(n), as positions counted from 1.
permutation(n, stream) == ShuffleFrom([ k \in 1..n |-> k ], n - 1, stream)

\* day_group.sample(n=n, random_state=...): without weights the rows at
\* permutation(len)[:n] are taken.
SampleUniform(subset, n, random_state, g) ==
    LET p == permutation(Len(subset),
                         IF random_state = None THEN g ELSE SeededWords(random_state[1]))
    IN [ selected |-> { subset[p.arr[k]] : k \in 1..n },
         g |-> IF random_state = None THEN p.stream ELSE g,
         dry |-> p.dry ]

\* The loop of earliest_N_temporal_sampling over the days, ascending (the
\* rows of a day keep the order of df: the sort by time is stable for
\* tables this small).  acc: the rows selected so far, their number, the
\* process-wide generator, and whether its words ran out.
RECURSIVE DayLoop(_, _, _, _, _)
DayLoop(days, df, number, random_state, acc) ==
    IF days = << >> \/ number - acc.count <= 0 THEN acc
    ELSE LET OnDay(r) == r.time = days[1]
             day_group == SelectSeq(df, OnDay)
             quota == number - acc.count
             s == SampleUniform(day_group, quota, random_state, acc.g)
         IN IF Len(day_group) <= quota
            THEN DayLoop(Tail(days), df, number, random_state,
                         [ selected |-> acc.selected \cup Rows(day_group),
                           count |-> acc.count + Len(day_group),
                           g |-> acc.g, dry |-> FALSE ])
            ELSE [ selected |-> acc.selected \cup s.selected,
                   count |-> acc.count + quota, g |-> s.g, dry |-> s.dry ]

earliest_N_temporal_sampling(samples_df, time_range, target_proportion_, target_number_, target_demes, random_state, g) ==
    LET Kept(r) ==
            /\ time_range = None
                  \/ (r.time >= time_range[1][1] /\ r.time <= time_range[1][2])
            /\ target_demes = None \/ r.deme \in target_demes[1]
        df == SelectSeq(samples_df, Kept)
        N == Len(df)
        number == TargetNumber(target_proportion_, target_number_, N)
        days == Ascending({ r.time : r \in Rows(df) })
        loop == DayLoop(days, df, number[1], random_state,
                        [ selected |-> {}, count |-> 0, g |-> g, dry |-> FALSE ])
    IN IF df = << >> THEN Returns({}, g)
       ELSE IF number = None THEN Raises("ValueError", NoTarget, g)
       ELSE IF N <= number[1] THEN Returns(Rows(df), g)
       ELSE [ outcome |-> [ kind |-> "return", value |-> loop.selected ],
              g |-> loop.g, dry |-> loop.dry ]

\* The first doubles default_rng(seed).random() yields, for the seeds 0, 1,
\* 2 and 3, in millionths rounded down.
PCG64 ==
    << << 636961, 269786, 40973, 16527, 813270, 912755, 606635, 729496, 543624, 935072 >>,
       << 511821, 950463, 144159, 948649, 311831, 423326, 827702, 409199, 549593, 27559 >>,
       << 261612, 298491, 814225, 91915, 600100, 728560, 187901, 55146, 274969, 657433 >>,
       << 85649, 236810, 801274, 582162, 94128, 433126, 479051, 159738, 734577, 113672 >> >>

\* np.random.default_rng(random_state).random(size=n), the column "random":
\* with a seed the doubles of the table; with None the generator is seeded
\* from the operating system, and only the order of its values matters.
RandomColumns(random_state, n) ==
    IF random_state = None
    THEN { c \in [ 1..n -> 1..n ] : \A i, j \in 1..n : c[i] = c[j] => i = j }
    ELSE { [ k \in 1..n |-> PCG64[random_state[1] + 1][k] ] }

\* random[k] is the value of the column "random" in row k of working_df.
\* The process-wide generator is not used.
earliest_N_by_deme_sampling(allocation, samples_df, random, g) ==
    LET InAllocation(r) == r.deme \in Keys(allocation)
        working_df == SelectSeq(samples_df, InAllocation)
        \* sort_values(by=["deme", "time", "random"]), within a deme
        Precedes(i, j) ==
            \/ working_df[i].time < working_df[j].time
            \/ working_df[i].time = working_df[j].time /\ random[i] < random[j]
        deme_subset(deme_id) ==
            { k \in 1..Len(working_df) : working_df[k].deme = deme_id }
        iloc(deme_id, target_n) ==
            { k \in deme_subset(deme_id) :
                Cardinality({ j \in deme_subset(deme_id) : Precedes(j, k) }) < target_n }
        selected_samples(item) ==
            IF item[2] <= 0 THEN {}
            ELSE IF item[2] >= Cardinality(deme_subset(item[1]))
            THEN deme_subset(item[1])
            ELSE iloc(item[1], item[2])
    IN Returns({ working_df[k] :
                   k \in UNION { selected_samples(allocation[i]) :
                                   i \in 1..Len(allocation) } }, g)

weighted_spatiotemporal_sampling(samples_df, weighting_strategy, case_incidence, time_range, target_proportion_, target_number_, target_demes, random_state, g) ==
    LET Kept(r) ==
            /\ target_demes = None \/ r.deme \in target_demes[1]
            /\ time_range = None
                  \/ (r.time >= time_range[1][1] /\ r.time <= time_range[1][2])
        df == SelectSeq(samples_df, Kept)
        total_filtered == Len(df)
        number == TargetNumber(target_proportion_, target_number_, total_filtered)
        bin_count(r) ==
            Cardinality({ x \in Rows(df) : x.deme = r.deme /\ x.time = r.time })
        weight == [ r \in Rows(df) |->
                      CASE weighting_strategy = "cases" ->
                              << case_incidence[1][r.deme][r.time], bin_count(r) >>
                        [] weighting_strategy = "even" -> << 1, bin_count(r) >>
                        [] weighting_strategy = "samples" -> << 1, 1 >> ]
    IN IF weighting_strategy = "cases" /\ case_incidence = None
       THEN Raises("ValueError", NoIncidence, g)
       ELSE IF df = << >> THEN Returns({}, g)
       ELSE IF number = None THEN Raises("ValueError", NoTarget, g)
       ELSE IF number[1] >= total_filtered THEN Returns(Rows(df), g)
       ELSE IF \A r \in Rows(df) : weight[r][1] = 0 THEN Returns({}, g)
       ELSE Drawn(Sample(df, weight, number[1], random_state, g))

\* ----------------------------------------------- calls of the draw primitives
\* The weighting schemes with the tables the composite strategies pass for
\* each.
TemporalWeightings ==
    [ weighting_strategy : {"cases"}, case_incidence : { Some(t) : t \in IncidenceTables } ]
    \cup [ weighting_strategy : {"even", "samples"}, case_incidence : {None} ]

SpatialWeightings ==
    [ weighting_strategy : {"cases"}, case_incidence : { Some(t) : t \in IncidenceTables },
      population_sizes : {None} ]
    \cup [ weighting_strategy : {"population"}, case_incidence : {None},
           population_sizes : { Some(t) : t \in PopulationTables } ]
    \cup [ weighting_strategy : {"even"}, case_incidence : {None}, population_sizes : {None} ]

\* The samples_df a draw primitive is given: up to MaxPool rows, in any
\* order.
Orderings(df) ==
    { o \in [ 1..Cardinality(df) -> df ] :
        \A i, j \in 1..Cardinality(df) : o[i] = o[j] => i = j }

Pools == UNION { Orderings(df) : df \in DataFrames(MaxPool) }

\* What the process-wide generator can yield during one draw: a sample of
\* n rows uses at most n + (n - 1) + ... + 1 values, and a sample takes
\* fewer rows than its unit has, at most MaxPool - 1; each value can land
\* anywhere.
ProcessStreams ==
    [ 1..((MaxPool * (MaxPool - 1)) \div 2) -> { << "rank", c >> : c \in 0..(MaxPool - 1) } ]

\* The allocation dicts of the draw by deme: up to MaxAllocationKeys demes
\* as keys, in any insertion order, each with a quota.
AllocationDicts ==
    UNION { UNION { { [ k \in 1..Len(o) |-> << o[k], q[o[k]] >> ] :
                        q \in [ keys -> 0..MaxQuota ] } :
                    o \in Orderings(keys) } :
            keys \in { K \in SUBSET Demes : Cardinality(K) <= MaxAllocationKeys } }

\* The streams a call with this random_state can meet.
Streams(random_state) == IF random_state = None THEN ProcessStreams ELSE { << >> }

TemporalDrawCall(a, df, w, s) ==
    [ function |-> "weighted_temporal_sampling", allocation |-> a, samples_df |-> df,
      weighting_strategy |-> w.weighting_strategy, case_incidence |-> w.case_incidence,
      random_state |-> s ]

SpatialDrawCall(a, df, w, td, s) ==
    [ function |-> "weighted_spatial_sampling", allocation |-> a, samples_df |-> df,
      case_incidence |-> w.case_incidence, target_demes |-> td,
      population_sizes |-> w.population_sizes,
      weighting_strategy |-> w.weighting_strategy, random_state |-> s ]

\* The outcome of the draw primitive `c` calls, the process-wide generator
\* yielding g.
Draw(c, g) ==
    CASE c.function = "weighted_temporal_sampling" ->
            weighted_temporal_sampling(c.allocation, c.samples_df, c.weighting_strategy,
                                       c.case_incidence, c.random_state, g)
      [] c.function = "weighted_spatial_sampling" ->
            weighted_spatial_sampling(c.allocation, c.samples_df, c.case_incidence,
                                      c.target_demes, c.population_sizes,
                                      c.weighting_strategy, c.random_state, g)

InitDraw ==
    /\ InitInference
    /\ target_proportion = None
    /\ target_number = None
    /\ \E df \in Pools, s \in Seeds :
          \/ \E a \in AllocationDicts, w \in TemporalWeightings :
                call = TemporalDrawCall(a, df, w, s)
          \/ \E a \in [ Days -> 0..MaxQuota ], w \in SpatialWeightings,
                td \in TargetDemeLists :
                call = SpatialDrawCall(a, df, w, td, s)
    /\ result = NotRun
    /\ result2 = NotRun
    /\ np_random = 0

\* The draw primitive is called.  np_random counts the values the
\* process-wide generator has yielded.
DrawSamples ==
    /\ result = NotRun
    /\ \E g \in Streams(call.random_state) :
         LET d == Draw(call, g)
         IN /\ result' = d.outcome
            /\ np_random' = np_random + (Len(g) - Len(d.g))
    /\ UNCHANGED << rows, nextId, pc, inference, head_cache, response, allocVars, inflight, call, result2 >>

\* The draw primitive is called again with the same arguments.
DrawSamplesAgain ==
    /\ result # NotRun
    /\ result2 = NotRun
    /\ \E g \in Streams(call.random_state) :
         LET d == Draw(call, g)
         IN /\ result2' = d.outcome
            /\ np_random' = np_random + (Len(g) - Len(d.g))
    /\ UNCHANGED << rows, nextId, pc, inference, head_cache, response, allocVars, inflight, call, result >>

NextDraw == DrawSamples \/ DrawSamplesAgain

SpecDraw == InitDraw /\ [][NextDraw]_vars

\* ------------------------------------------------------- strategy dispatch
\* SamplesAllocation.draw_samples: the consolidated argument bag, the lookup
\* of the composite function and the selection of its arguments.

AllocationPriorities == { "T", "S", "J" }
TemporalStrategies == { "US", "UC", "IUC", "EV", "EN", "LN" }
SpatialStrategies == { "US", "UC", "IUC", "UP", "IUP", "EV" }

\* The three tables: under each priority, the function registered under the
\* key (temporal_strategy, spatial_strategy).
draw_function_map ==
    [ T |-> ( << Some("US"), Some("US") >> :> "tUS_sUS_draw" @@
              << Some("US"), Some("UC") >> :> "tUS_sUC_draw" @@
              << Some("US"), Some("UP") >> :> "tUS_sUP_draw" @@
              << Some("US"), Some("EV") >> :> "tUS_sEV_draw" @@
              << Some("UC"), Some("US") >> :> "tUC_sUS_draw" @@
              << Some("UC"), Some("UC") >> :> "tUC_sUC_draw" @@
              << Some("UC"), Some("UP") >> :> "tUC_sUP_draw" @@
              << Some("UC"), Some("EV") >> :> "tUC_sEV_draw" @@
              << Some("EV"), Some("US") >> :> "tEV_sUS_draw" @@
              << Some("EV"), Some("UC") >> :> "tEV_sUC_draw" @@
              << Some("EV"), Some("UP") >> :> "tEV_sUP_draw" @@
              << Some("EV"), Some("EV") >> :> "tEV_sEV_draw" @@
              << Some("EN"), None >> :> "tEN_draw" ),
      S |-> ( << Some("US"), Some("US") >> :> "sUS_tUS_draw" @@
              << Some("UC"), Some("US") >> :> "sUS_tUC_draw" @@
              << Some("EV"), Some("US") >> :> "sUS_tEV_draw" @@
              << Some("EN"), Some("US") >> :> "sUS_tEN_draw" @@
              << Some("US"), Some("UC") >> :> "sUC_tUS_draw" @@
              << Some("UC"), Some("UC") >> :> "sUC_tUC_draw" @@
              << Some("EV"), Some("UC") >> :> "sUC_tEV_draw" @@
              << Some("EN"), Some("UC") >> :> "sUC_tEN_draw" @@
              << Some("US"), Some("UP") >> :> "sUP_tUS_draw" @@
              << Some("UC"), Some("UP") >> :> "sUP_tUC_draw" @@
              << Some("EV"), Some("UP") >> :> "sUP_tEV_draw" @@
              << Some("EN"), Some("UP") >> :> "sUP_tEN_draw" @@
              << Some("US"), Some("EV") >> :> "sEV_tUS_draw" @@
              << Some("UC"), Some("EV") >> :> "sEV_tUC_draw" @@
              << Some("EV"), Some("EV") >> :> "sEV_tEV_draw" @@
              << Some("EN"), Some("EV") >> :> "sEV_tEN_draw" ),
      J |-> ( << Some("US"), None >> :> "stUS_draw" @@
              << Some("UC"), None >> :> "stUC_draw" @@
              << Some("EV"), None >> :> "stEV_draw" @@
              << Some("EN"), None >> :> "tEN_draw" ) ]

\* The message interpolates the three values of the triple.
InvalidCombination(allocation_priority, temporal_strategy, spatial_strategy) ==
    Raised("ValueError",
           << "Invalid strategy combination", allocation_priority,
              temporal_strategy, spatial_strategy >>)

\* A lookup that searches the tables of all priorities.
get_draw_function_any_priority(allocation_priority, temporal_strategy, spatial_strategy) ==
    LET strategy_key == << temporal_strategy, spatial_strategy >>
        tables == { p \in DOMAIN draw_function_map :
                      strategy_key \in DOMAIN draw_function_map[p] }
    IN  IF tables = {}
        THEN InvalidCombination(allocation_priority, temporal_strategy, spatial_strategy)
        ELSE [ kind |-> "return",
               value |-> draw_function_map[CHOOSE p \in tables : TRUE][strategy_key] ]

get_draw_function(allocation_priority, temporal_strategy, spatial_strategy) ==
    IF allocation_priority \notin DOMAIN draw_function_map
    THEN Raised("ValueError", << "Invalid allocation priority", allocation_priority >>)
    ELSE LET priority_map == draw_function_map[allocation_priority]
             strategy_key == << temporal_strategy, spatial_strategy >>
         IN  IF strategy_key \notin DOMAIN priority_map
             THEN InvalidCombination(allocation_priority, temporal_strategy,
                                     spatial_strategy)
             ELSE [ kind |-> "return", value |-> priority_map[strategy_key] ]

\* The keys of the argument bag.
BagKeys ==
    { "case_incidence", "samples_df", "population_sizes", "time_range",
      "target_proportion", "target_number", "min_number_per_day",
      "min_number_per_deme", "target_demes", "random_state" }

\* The parameters with a default of the three families of composites.
TemporalFirstTail ==
    << "time_range", "target_proportion", "target_number",
       "min_number_per_day", "target_demes", "random_state" >>
SpatialFirstTail ==
    << "target_proportion", "target_number", "min_number_per_deme",
       "target_demes", "random_state" >>
JointTail ==
    << "time_range", "target_proportion", "target_number", "target_demes",
       "random_state" >>

\* The composite functions whose definition is not in the repository's
\* sampling modules although the tables register them.
UnlistedFunctions ==
    { "tUS_sUS_draw", "tUS_sUC_draw", "tUS_sUP_draw", "tUS_sEV_draw",
      "tUC_sUS_draw", "tEV_sUS_draw", "sUP_tUS_draw" }

\* Their parameters, taken to be those of the composites of the same family.
UnlistedSignature(func) ==
    IF func = "sUP_tUS_draw"
    THEN [ required |-> << "case_incidence", "samples_df", "population_sizes" >>,
           defaults |-> SpatialFirstTail ]
    ELSE IF func = "tUS_sUP_draw"
    THEN [ required |-> << "case_incidence", "samples_df", "population_sizes" >>,
           defaults |-> TemporalFirstTail ]
    ELSE [ required |-> << "case_incidence", "samples_df" >>,
           defaults |-> TemporalFirstTail ]

\* inspect.signature(func).parameters: the parameters without a default,
\* then those with one; all are positional-or-keyword.
Signature(func) ==
    CASE func \in { "tUC_sUC_draw", "tUC_sEV_draw", "tEV_sUC_draw", "tEV_sEV_draw" } ->
            [ required |-> << "case_incidence", "samples_df" >>,
              defaults |-> TemporalFirstTail ]
      [] func \in { "tUC_sUP_draw", "tEV_sUP_draw" } ->
            [ required |-> << "case_incidence", "samples_df", "population_sizes" >>,
              defaults |-> TemporalFirstTail ]
      [] func \in { "sUS_tUS_draw", "sUS_tUC_draw", "sUS_tEV_draw", "sUS_tEN_draw",
                    "sUC_tUS_draw", "sUC_tUC_draw", "sUC_tEV_draw", "sUC_tEN_draw",
                    "sEV_tUS_draw", "sEV_tUC_draw" } ->
            [ required |-> << "case_incidence", "samples_df" >>,
              defaults |-> SpatialFirstTail ]
      [] func = "sUP_tUC_draw" ->
            [ required |-> << "case_incidence", "samples_df", "population_sizes" >>,
              defaults |-> SpatialFirstTail ]
      [] func \in { "sUP_tEV_draw", "sUP_tEN_draw" } ->
            [ required |-> << "samples_df", "population_sizes" >>,
              defaults |-> SpatialFirstTail ]
      [] func \in { "sEV_tEV_draw", "sEV_tEN_draw" } ->
            [ required |-> << "samples_df" >>, defaults |-> SpatialFirstTail ]
      [] func = "stUC_draw" ->
            [ required |-> << "samples_df", "case_incidence" >>, defaults |-> JointTail ]
      [] func \in { "stEV_draw", "stUS_draw", "tEN_draw" } ->
            [ required |-> << "samples_df" >>, defaults |-> JointTail ]
      [] func \in UnlistedFunctions -> UnlistedSignature(func)

MissingArgument(param_name) ==
    Raised("ValueError", << "Missing required positional argument", param_name >>)

\* The loop of get_relevant_args from parameter i on; args holds the values
\* appended so far.
RECURSIVE RelevantArgsFrom(_, _, _, _)
RelevantArgsFrom(func_params, all_args, i, args) ==
    LET names == func_params.required \o func_params.defaults
    IN  IF i > Len(names)
        THEN [ kind |-> "return", args |-> args, kwargs |-> << >> ]
        ELSE IF names[i] \in DOMAIN all_args
        THEN RelevantArgsFrom(func_params, all_args, i + 1,
                              Append(args, all_args[names[i]]))
        ELSE IF i <= Len(func_params.required)
        THEN MissingArgument(names[i])
        ELSE RelevantArgsFrom(func_params, all_args, i + 1, args)

get_relevant_args(func, all_args) ==
    RelevantArgsFrom(Signature(func), all_args, 1, << >>)

\* The call func(*args): each parameter of func is bound to the argument at
\* its position; the names func does not declare are left None here.
Bind(func, args) ==
    LET names == Signature(func).required \o Signature(func).defaults
        At(name) == { i \in 1..Len(names) : names[i] = name }
    IN [ name \in BagKeys |->
           IF At(name) # {} /\ (CHOOSE i \in At(name) : TRUE) <= Len(args)
           THEN args[CHOOSE i \in At(name) : TRUE]
           ELSE None ]

\* What each composite does: the allocation primitive of its first axis,
\* then the weighting of the draw over its second axis ("earliest" is the
\* earliest-N draw by deme).  The joint strategies and tEN_draw call one
\* primitive.
SpatialFirst ==
    ( "sUS_tUS_draw" :> << "uniform_sample_spatial_allocation", "samples" >> @@
      "sUS_tUC_draw" :> << "uniform_sample_spatial_allocation", "cases" >> @@
      "sUS_tEV_draw" :> << "uniform_sample_spatial_allocation", "even" >> @@
      "sUS_tEN_draw" :> << "uniform_sample_spatial_allocation", "earliest" >> @@
      "sUC_tUS_draw" :> << "uniform_case_spatial_allocation", "samples" >> @@
      "sUC_tUC_draw" :> << "uniform_case_spatial_allocation", "cases" >> @@
      "sUC_tEV_draw" :> << "uniform_case_spatial_allocation", "even" >> @@
      "sUC_tEN_draw" :> << "uniform_case_spatial_allocation", "earliest" >> @@
      "sUP_tUC_draw" :> << "uniform_population_spatial_allocation", "cases" >> @@
      "sUP_tEV_draw" :> << "uniform_population_spatial_allocation", "even" >> @@
      "sUP_tEN_draw" :> << "uniform_population_spatial_allocation", "earliest" >> @@
      "sEV_tUS_draw" :> << "even_spatial_allocation", "samples" >> @@
      "sEV_tUC_draw" :> << "even_spatial_allocation", "cases" >> @@
      "sEV_tEV_draw" :> << "even_spatial_allocation", "even" >> @@
      "sEV_tEN_draw" :> << "even_spatial_allocation", "earliest" >> )

TemporalFirst ==
    ( "tUC_sUC_draw" :> << "uniform_case_temporal_allocation", "cases" >> @@
      "tUC_sUP_draw" :> << "uniform_case_temporal_allocation", "population" >> @@
      "tUC_sEV_draw" :> << "uniform_case_temporal_allocation", "even" >> @@
      "tEV_sUC_draw" :> << "even_temporal_allocation", "cases" >> @@
      "tEV_sUP_draw" :> << "even_temporal_allocation", "population" >> @@
      "tEV_sEV_draw" :> << "even_temporal_allocation", "even" >> )

Joint == ( "stUS_draw" :> "samples" @@ "stUC_draw" :> "cases" @@ "stEV_draw" :> "even" )

\* The unlisted composites, by the rule the listed ones follow: the
\* allocation of the first axis, then the draw of the second.
Unlisted ==
    ( "tUS_sUS_draw" :> << "uniform_sample_temporal_allocation", "samples" >> @@
      "tUS_sUC_draw" :> << "uniform_sample_temporal_allocation", "cases" >> @@
      "tUS_sUP_draw" :> << "uniform_sample_temporal_allocation", "population" >> @@
      "tUS_sEV_draw" :> << "uniform_sample_temporal_allocation", "even" >> @@
      "tUC_sUS_draw" :> << "uniform_case_temporal_allocation", "samples" >> @@
      "tEV_sUS_draw" :> << "even_temporal_allocation", "samples" >> @@
      "sUP_tUS_draw" :> << "uniform_population_spatial_allocation", "samples" >> )

\* {int(k): v for k, v in case_incidence.items()} with None for the table.
NoneHasNoItems == "'NoneType' object has no attribute 'items'"

\* target_demes is a list; the primitives use it as a collection.
AsSet(target_demes) ==
    IF target_demes = None THEN None
    ELSE Some({ target_demes[1][k] : k \in 1..Len(target_demes[1]) })

\* The first step of a spatial-first composite; b binds its parameters.
SpatialAllocation(name, b) ==
    LET df == Rows(b.samples_df[1])
    IN  CASE name = "even_spatial_allocation" ->
                even_spatial_allocation(df, b.target_proportion, b.target_number,
                                        b.min_number_per_deme[1], AsSet(b.target_demes))
          [] name = "uniform_population_spatial_allocation" ->
                IF b.population_sizes = None
                THEN Raised("AttributeError", NoneHasNoItems)
                ELSE uniform_population_spatial_allocation(
                         b.population_sizes[1], df, b.target_proportion, b.target_number,
                         b.min_number_per_deme[1], AsSet(b.target_demes))
          [] name = "uniform_sample_spatial_allocation" ->
                IF b.case_incidence = None
                THEN Raised("AttributeError", NoneHasNoItems)
                ELSE uniform_sample_spatial_allocation(
                         b.case_incidence[1], df, b.target_proportion, b.target_number,
                         b.min_number_per_deme[1], AsSet(b.target_demes))
          [] name = "uniform_case_spatial_allocation" ->
                IF b.case_incidence = None
                THEN Raised("AttributeError", NoneHasNoItems)
                ELSE uniform_case_spatial_allocation(
                         b.case_incidence[1], df, b.target_proportion, b.target_number,
                         b.min_number_per_deme[1], AsSet(b.target_demes))

\* The order of the keys of the dict a spatial allocation returns: that of
\* target_demes; without it that of the table's keys (ascending), or for
\* the even allocation that of samples_df["deme"].unique().
KeyOrder(name, b) ==
    IF b.target_demes # None THEN b.target_demes[1]
    ELSE IF name = "even_spatial_allocation"
    THEN FirstOccurrences([ k \in 1..Len(b.samples_df[1]) |-> b.samples_df[1][k].deme ])
    ELSE IF name = "uniform_population_spatial_allocation"
    THEN Ascending(DOMAIN b.population_sizes[1])
    ELSE Ascending(DOMAIN b.case_incidence[1])

\* The items of the dict `allocated`, its keys in this order.
Items(order, allocated) ==
    LET IsKey(deme) == deme \in DOMAIN allocated
        keys == SelectSeq(order, IsKey)
    IN [ k \in 1..Len(keys) |-> << keys[k], allocated[keys[k]] >> ]

\* The outcomes a spatial-first composite can have: the earliest-N draw by
\* deme has one for each column "random" its generator can yield.
SpatialFirstDraw(axes, b, g) ==
    LET spatial_allocation == SpatialAllocation(axes[1], b)
        items == Items(KeyOrder(axes[1], b), spatial_allocation.value)
    IN  IF spatial_allocation.kind = "raise"
        THEN { [ outcome |-> spatial_allocation, g |-> g ] }
        ELSE IF axes[2] = "earliest"
        THEN { earliest_N_by_deme_sampling(items, b.samples_df[1], random, g) :
                 random \in RandomColumns(b.random_state, Len(b.samples_df[1])) }
        ELSE { weighted_temporal_sampling(
                   items, b.samples_df[1], axes[2],
                   IF axes[2] = "cases" THEN b.case_incidence ELSE None,
                   b.random_state, g) }

\* The first step of a temporal-first composite.
TemporalAllocation(name, b) ==
    LET df == Rows(b.samples_df[1])
    IN  IF b.case_incidence = None
        THEN Raised("AttributeError", NoneHasNoItems)
        ELSE CASE name = "uniform_sample_temporal_allocation" ->
                     uniform_sample_temporal_allocation(
                         b.case_incidence[1], df, b.time_range, b.target_proportion,
                         b.target_number, AsSet(b.target_demes))
               [] name = "uniform_case_temporal_allocation" ->
                     uniform_case_temporal_allocation(
                         b.case_incidence[1], df, b.time_range, b.target_proportion,
                         b.target_number, b.min_number_per_day[1], AsSet(b.target_demes))
               [] name = "even_temporal_allocation" ->
                     even_temporal_allocation(
                         b.case_incidence[1], df, b.time_range, b.target_proportion,
                         b.target_number, b.min_number_per_day[1], AsSet(b.target_demes))

\* The draw over the demes of each day with every row of the same weight.
uniform_spatial_sampling(allocation, samples_df, target_demes, random_state, g) ==
    LET InTarget(r) == r.deme \in target_demes[1]
        D == Cardinality(DOMAIN allocation)
        items == [ k \in 1..D |-> << k - 1, allocation[k - 1] >> ]
        df == IF target_demes # None THEN SelectSeq(samples_df, InTarget) ELSE samples_df
        subset == [ d \in DOMAIN allocation |->
                      LET OfDay(r) == r.time = d IN SelectSeq(df, OfDay) ]
        weight == [ r \in { x \in Rows(df) : x.time \in DOMAIN allocation } |-> << 1, 1 >> ]
    IN Drawn(SelectLoop(items, subset, weight, random_state,
                        [ raised |-> FALSE, selected |-> {}, g |-> g ]))

TemporalFirstDraw(axes, b, g) ==
    LET temporal_allocation == TemporalAllocation(axes[1], b)
    IN  IF temporal_allocation.kind = "raise"
        THEN [ outcome |-> temporal_allocation, g |-> g ]
        ELSE IF axes[2] = "samples"
        THEN uniform_spatial_sampling(temporal_allocation.value, b.samples_df[1],
                                      AsSet(b.target_demes), b.random_state, g)
        ELSE weighted_spatial_sampling(
                 temporal_allocation.value, b.samples_df[1],
                 IF axes[2] = "cases" THEN b.case_incidence ELSE None,
                 AsSet(b.target_demes),
                 IF axes[2] = "population" THEN b.population_sizes ELSE None,
                 axes[2], b.random_state, g)

\* The call draw_function(*args): the outcomes it can have, each what it
\* returns or raises with what the process-wide generator yields after it.
Composite(func, args, g) ==
    LET b == Bind(func, args)
    IN  CASE func \in DOMAIN SpatialFirst -> SpatialFirstDraw(SpatialFirst[func], b, g)
          [] func \in DOMAIN TemporalFirst -> { TemporalFirstDraw(TemporalFirst[func], b, g) }
          [] func \in DOMAIN Joint ->
                { weighted_spatiotemporal_sampling(
                      b.samples_df[1], Joint[func],
                      IF func = "stUC_draw" THEN b.case_incidence ELSE None,
                      b.time_range, b.target_proportion, b.target_number,
                      AsSet(b.target_demes), b.random_state, g) }
          [] func = "tEN_draw" ->
                { earliest_N_temporal_sampling(
                      b.samples_df[1], b.time_range, b.target_proportion,
                      b.target_number, AsSet(b.target_demes), b.random_state, g) }
          [] func = "sUP_tUS_draw" -> SpatialFirstDraw(Unlisted[func], b, g)
          [] OTHER -> { TemporalFirstDraw(Unlisted[func], b, g) }

\* The words of the generator ran out before the draw was through.
Dry(d) == "dry" \in DOMAIN d /\ d.dry

\* SamplesAllocation.draw_samples looks the function up, selects its
\* arguments from the bag and returns draw_function(*args, **kwargs): the
\* outcomes the call can have.  draw_function, args and kwargs are its
\* locals as far as it got.
draw_samples(allocation_priority, temporal_strategy, spatial_strategy, all_args, g) ==
    LET draw_function ==
            get_draw_function(allocation_priority, temporal_strategy, spatial_strategy)
        relevant == get_relevant_args(draw_function.value, all_args)
    IN  IF draw_function.kind = "raise"
        THEN { [ outcome |-> draw_function, g |-> g, dry |-> FALSE,
                 draw_function |-> None, args |-> None, kwargs |-> None ] }
        ELSE IF relevant.kind = "raise"
        THEN { [ outcome |-> relevant, g |-> g, dry |-> FALSE,
                 draw_function |-> Some(draw_function.value), args |-> None,
                 kwargs |-> None ] }
        ELSE { [ outcome |-> returned.outcome, g |-> returned.g, dry |-> Dry(returned),
                 draw_function |-> Some(draw_function.value),
                 args |-> Some(relevant.args), kwargs |-> Some(relevant.kwargs) ] :
               returned \in Composite(draw_function.value, relevant.args, g) }

\* The bag draw_samples consolidates from the simulation (its two tables
\* and its samples), the allocation's fields (both minima are min_number,
\* time_range is always a pair) and the caller's random_state.
Bag(case_incidence, samples_df, population_sizes, time_range, target_proportion_, target_number_, min_number, target_demes, random_state) ==
    [ case_incidence |-> case_incidence, samples_df |-> Some(samples_df),
      population_sizes |-> population_sizes, time_range |-> time_range,
      target_proportion |-> target_proportion_, target_number |-> target_number_,
      min_number_per_day |-> Some(min_number), min_number_per_deme |-> Some(min_number),
      target_demes |-> target_demes, random_state |-> random_state ]

\* The simulations of the dispatched calls: each table is null or holds
\* one positive value throughout; the samples are listed by sample_id, the
\* first taken on the first day in the first deme.
DispatchIncidence ==
    { None } \cup { Some(t) : t \in { x \in IncidenceTables :
                                       /\ x[0][0] > 0
                                       /\ \A d \in Demes, day \in Days :
                                             x[d][day] = x[0][0] } }
DispatchPopulations ==
    { None } \cup { Some(t) : t \in { x \in PopulationTables :
                                       x[0] > 0 /\ \A d \in Demes : x[d] = x[0] } }
DispatchPools ==
    { df \in Pools :
        /\ \A k \in 1..Len(df) : df[k].sample_id = k
        /\ df # << >> => (df[1].time = 0 /\ df[1].deme = 0) }

\* target_demes: null, or a list of distinct demes among the first
\* MaxAllocationKeys.
DispatchTargetDemes ==
    { None } \cup { Some(o) : o \in UNION { Orderings(S) :
                                             S \in SUBSET (0..(MaxAllocationKeys - 1)) } }

\* The targets: one of the two, or neither.
DispatchTargets ==
    { << tp, tn >> \in Proportions \X Numbers : tp = None \/ tn = None }

Bags ==
    { Bag(ci, df, pop, tr, tgt[1], tgt[2], m, td, s) :
        ci \in DispatchIncidence, df \in DispatchPools, pop \in DispatchPopulations,
        tr \in TimeRanges \ { None }, tgt \in DispatchTargets, m \in 0..MaxMin,
        td \in DispatchTargetDemes, s \in Seeds }

\* The bag of a simulation without tables or samples.
NoSamplesBag ==
    Bag(None, << >>, None, Some(<< 0, NumDays - 1 >>), None, None, 0, None, None)

\* The triple names a function of the tables.
Registered(allocation_priority, temporal_strategy, spatial_strategy) ==
    /\ allocation_priority \in DOMAIN draw_function_map
    /\ << temporal_strategy, spatial_strategy >>
          \in DOMAIN draw_function_map[allocation_priority]

\* allocation_priority is one of the choices; temporal_strategy and
\* spatial_strategy are blank=True, null=True: a code of the choices, the
\* empty string, or None.  A triple that names no function is refused
\* before the bag is read: one bag stands for all.
InitDispatch ==
    /\ InitInference
    /\ target_proportion = None
    /\ target_number = None
    /\ \E p \in AllocationPriorities,
          t \in { Some(c) : c \in TemporalStrategies \cup { "" } } \cup { None },
          s \in { Some(c) : c \in SpatialStrategies \cup { "" } } \cup { None } :
          \E all_args \in IF Registered(p, t, s) THEN Bags ELSE { NoSamplesBag } :
             call = [ function |-> "draw_samples", allocation_priority |-> p,
                      temporal_strategy |-> t, spatial_strategy |-> s,
                      all_args |-> all_args, draw_function |-> None,
                      args |-> None, kwargs |-> None ]
    /\ result = NotRun
    /\ result2 = NotRun
    /\ np_random = 0

\* SamplesAllocation.draw_samples runs: result is what it returned or
\* raised, np_random counts the values the process-wide generator has
\* yielded, and call keeps the function it resolved and the arguments it
\* passed.
DispatchDraw ==
    /\ call.function = "draw_samples"
    /\ result = NotRun
    /\ \E g \in Streams(call.all_args.random_state) :
         \E d \in draw_samples(call.allocation_priority, call.temporal_strategy,
                                call.spatial_strategy, call.all_args, g) :
            /\ ~d.dry
            /\ result' = d.outcome
            /\ np_random' = np_random + (Len(g) - Len(d.g))
            /\ call' = [ call EXCEPT !.draw_function = d.draw_function,
                                     !.args = d.args, !.kwargs = d.kwargs ]
    /\ UNCHANGED << rows, nextId, pc, inference, head_cache, response, allocVars, inflight, result2 >>

SpecDispatch == InitDispatch /\ [][DispatchDraw]_vars

\* --------------------------------------------------------- migratory events
\* Inference.enumerate_migratory_events over the inferred tree.  A tree is a
\* record of three sequences indexed by node: parent (0 for the root, which
\* is node 1; a parent precedes its children), deme and time.  A node's name
\* is its index.

\* The deme of a node: a deme of the outbreak, or -1 where the
\* reconstruction is ambiguous.
TreeDemes == { -1 } \cup Demes

ParentsOfSize(n) ==
    { p \in [ 1..n -> 0..(n - 1) ] :
        \A i \in 1..n : IF i = 1 THEN p[i] = 0 ELSE p[i] \in 1..(i - 1) }

\* node.children, in the order of the tree file.
RECURSIVE ChildrenFrom(_, _, _)
ChildrenFrom(tree, node, i) ==
    IF i > Len(tree.parent)
    THEN << >>
    ELSE (IF tree.parent[i] = node THEN << i >> ELSE << >>) \o
         ChildrenFrom(tree, node, i + 1)

Children(tree, node) == ChildrenFrom(tree, node, 1)

\* tree.traverse(): level order, a queue that is extended with the children
\* of each node visited.
RECURSIVE Traverse(_, _)
Traverse(tree, tovisit) ==
    IF tovisit = << >>
    THEN << >>
    ELSE << Head(tovisit) >> \o
         Traverse(tree, Tail(tovisit) \o Children(tree, Head(tovisit)))

\* A test that compares the node's deme with the root's.
IsMigrationFromRoot(tree, node) ==
    /\ tree.parent[node] # 0
    /\ tree.deme[1] # tree.deme[node]

\* node.up and node.up.deme != node.deme
IsMigration(tree, node) ==
    /\ tree.parent[node] # 0
    /\ tree.deme[tree.parent[node]] # tree.deme[node]

\* A walk that does not stop at a node of another deme.
RECURSIVE ExtractLineageAllDescendants(_, _, _, _)
ExtractLineageAllDescendants(tree, root_deme, stack, lineage) ==
    IF stack = << >>
    THEN lineage
    ELSE LET current == stack[Len(stack)]
             rest == SubSeq(stack, 1, Len(stack) - 1)
         IN  ExtractLineageAllDescendants(tree, root_deme,
                rest \o Children(tree, current),
                [ members |-> Append(lineage.members, current),
                  size |-> lineage.size +
                           (IF Children(tree, current) = << >> THEN 1 ELSE 0),
                  latest_sample_time |->
                      IF tree.time[current] > lineage.latest_sample_time
                      THEN tree.time[current]
                      ELSE lineage.latest_sample_time ])

\* The walk from the destination node over the nodes of its deme: the stack
\* is popped at its end and extended with the children of the node popped.
RECURSIVE ExtractLineage(_, _, _, _)
ExtractLineage(tree, root_deme, stack, lineage) ==
    IF stack = << >>
    THEN lineage
    ELSE LET current == stack[Len(stack)]
             rest == SubSeq(stack, 1, Len(stack) - 1)
         IN  IF tree.deme[current] # root_deme
             THEN ExtractLineage(tree, root_deme, rest, lineage)
             ELSE ExtractLineage(tree, root_deme, rest \o Children(tree, current),
                    [ members |-> Append(lineage.members, current),
                      size |-> lineage.size +
                               (IF Children(tree, current) = << >> THEN 1 ELSE 0),
                      latest_sample_time |->
                          IF tree.time[current] > lineage.latest_sample_time
                          THEN tree.time[current]
                          ELSE lineage.latest_sample_time ])

\* The record appended for `node`; id is the number of events before it.
MigratoryEvent(tree, node, id, extract_tls) ==
    LET data == [ origin_node |-> tree.parent[node],
                  origin_deme |-> tree.deme[tree.parent[node]],
                  origin_time |-> tree.time[tree.parent[node]],
                  destination_node |-> node,
                  destination_deme |-> tree.deme[node],
                  destination_time |-> tree.time[node],
                  ambiguous |-> (tree.deme[tree.parent[node]] = -1 \/ tree.deme[node] = -1),
                  id |-> id ]
    IN  IF extract_tls
        THEN data @@ ExtractLineage(tree, tree.deme[node], << node >>,
                        [ members |-> << >>, size |-> 0, latest_sample_time |-> -1 ])
        ELSE data

\* The loop over the nodes in traversal order, from position i on.
RECURSIVE EnumerateFrom(_, _, _, _, _)
EnumerateFrom(tree, order, i, migratory_events, extract_tls) ==
    IF i > Len(order)
    THEN migratory_events
    ELSE EnumerateFrom(tree, order, i + 1,
            IF IsMigration(tree, order[i])
            THEN Append(migratory_events,
                        MigratoryEvent(tree, order[i], Len(migratory_events), extract_tls))
            ELSE migratory_events,
            extract_tls)

\* Twice the sort key ((origin_time or 0) + destination_time) / 2.
SortKey(x) ==
    (IF x.origin_time = 0 THEN 0 ELSE x.origin_time) + x.destination_time

\* sorted(): stable, events of equal key keep their order.
RECURSIVE SortedByTime(_)
SortedByTime(events) ==
    IF events = << >>
    THEN << >>
    ELSE LET init == SortedByTime(SubSeq(events, 1, Len(events) - 1))
             last == events[Len(events)]
             before == SelectSeq(init, LAMBDA x : SortKey(x) <= SortKey(last))
             after == SelectSeq(init, LAMBDA x : SortKey(x) > SortKey(last))
         IN  before \o << last >> \o after

\* The list is stored on the row when save is set, returned otherwise.
enumerate_migratory_events(inferred_tree, extract_tls, sort_by_time, save) ==
    LET enumerated ==
            EnumerateFrom(inferred_tree, Traverse(inferred_tree, << 1 >>), 1, << >>,
                          extract_tls)
        migratory_events ==
            IF sort_by_time THEN SortedByTime(enumerated) ELSE enumerated
    IN  IF save
        THEN [ kind |-> "return", value |-> None,
               inferred_migratory_events |-> Some(migratory_events) ]
        ELSE [ kind |-> "return", value |-> Some(migratory_events),
               inferred_migratory_events |-> None ]

InitEvents ==
    /\ InitInference
    /\ target_proportion = None
    /\ target_number = None
    /\ \E n \in 1..MaxTreeNodes :
          \E p \in ParentsOfSize(n), d \in [ 1..n -> TreeDemes ], t \in [ 1..n -> Days ],
             extract_tls \in BOOLEAN, sort_by_time \in BOOLEAN, save \in BOOLEAN :
             call = [ function |-> "enumerate_migratory_events",
                      inferred_tree |-> [ parent |-> p, deme |-> d, time |-> t ],
                      extract_tls |-> extract_tls, sort_by_time |-> sort_by_time,
                      save |-> save ]
    /\ result = NotRun
    /\ result2 = NotRun
    /\ np_random = 0

\* The events of the inferred tree are enumerated.
EnumerateMigratoryEvents ==
    /\ call.function = "enumerate_migratory_events"
    /\ result = NotRun
    /\ result' = enumerate_migratory_events(call.inferred_tree, call.extract_tls,
                                            call.sort_by_time, call.save)
    /\ UNCHANGED << rows, nextId, pc, inference, head_cache, response, allocVars, inflight, call, result2, np_random >>

SpecEvents == InitEvents /\ [][EnumerateMigratoryEvents]_vars

\* ----------------------------------------------------------------- evaluate
\* Inference.evaluate: the inferred earliest introductions against those of
\* the ground truth.  A quotient is the pair << numerator, denominator >>;
\* sampling_props, which is computed from the drawn samples and not from the
\* events, is left out of the record.

\* The loop over the inferred events from position i on: per destination
\* deme, the first event of smallest origin_time.
RECURSIVE InferredFrom(_, _, _)
InferredFrom(events, i, earliest) ==
    IF i > Len(events)
    THEN earliest
    ELSE LET event == events[i]
             destination_deme == event.destination_deme
         IN  InferredFrom(events, i + 1,
                IF \/ destination_deme \notin DOMAIN earliest
                   \/ event.origin_time < earliest[destination_deme].tpmrca
                THEN [ d \in DOMAIN earliest \cup { destination_deme } |->
                         IF d = destination_deme
                         THEN [ tpmrca |-> event.origin_time,
                                tmrca |-> event.destination_time,
                                source |-> Some(event.origin_deme) ]
                         ELSE earliest[d] ]
                ELSE earliest)

\* inferred_earliest_introductions: the events' earliest introductions, and
\* the root of the tree as the introduction of its deme unless ambiguous.
InferredEarliest(events, inferred_tree) ==
    LET earliest == InferredFrom(events, 1, << >>)
        root_deme == inferred_tree.deme[1]
    IN  IF root_deme >= 0
        THEN [ d \in DOMAIN earliest \cup { root_deme } |->
                 IF d = root_deme
                 THEN [ tpmrca |-> 0, tmrca |-> inferred_tree.time[1], source |-> None ]
                 ELSE earliest[d] ]
        ELSE earliest

\* The loop over the ground-truth events (time, origin, destination).
RECURSIVE TrueFrom(_, _, _)
TrueFrom(true_events, i, earliest) ==
    IF i > Len(true_events)
    THEN earliest
    ELSE LET time == true_events[i][1]
             origin == true_events[i][2]
             destination == true_events[i][3]
         IN  TrueFrom(true_events, i + 1,
                IF \/ destination \notin DOMAIN earliest
                   \/ time < earliest[destination].time
                THEN [ d \in DOMAIN earliest \cup { destination } |->
                         IF d = destination
                         THEN [ time |-> time, source |-> Some(origin) ]
                         ELSE earliest[d] ]
                ELSE earliest)

\* true_earliest_introductions: the outbreak origin is introduced at time 0
\* without a source.
TrueEarliest(true_events, outbreak_origin) ==
    LET earliest == TrueFrom(true_events, 1, << >>)
    IN  [ d \in DOMAIN earliest \cup { outbreak_origin } |->
            IF d = outbreak_origin
            THEN [ time |-> 0, source |-> None ]
            ELSE earliest[d] ]

Abs(x) == IF x < 0 THEN -x ELSE x

\* A time test whose interval excludes the inferred destination time.
TimeCorrectOpenEnd(inferred, truth, deme) ==
    /\ deme \in DOMAIN inferred
    /\ truth[deme].time >= inferred[deme].tpmrca
    /\ truth[deme].time < inferred[deme].tmrca

\* time_correct of one deme of the ground truth.
TimeCorrect(inferred, truth, deme) ==
    /\ deme \in DOMAIN inferred
    /\ truth[deme].time >= inferred[deme].tpmrca
    /\ truth[deme].time <= inferred[deme].tmrca

\* source_correct of one deme of the ground truth: a null inferred source is
\* compared through the true source and the outbreak origin.
SourceCorrect(inferred, truth, deme, outbreak_origin) ==
    /\ deme \in DOMAIN inferred
    /\ IF inferred[deme].source # None
       THEN inferred[deme].source = truth[deme].source
       ELSE truth[deme].source = Some(outbreak_origin)

\* The sum of 1 / (1 + |tmrca - tpmrca|) over the demes of `demes`.
RECURSIVE ScoreOver(_, _)
ScoreOver(inferred, demes) ==
    IF demes = {}
    THEN << 0, 1 >>
    ELSE LET d == CHOOSE x \in demes : TRUE
             rest == ScoreOver(inferred, demes \ {d})
             width == 1 + Abs(inferred[d].tmrca - inferred[d].tpmrca)
         IN  << rest[1] * width + rest[2], rest[2] * width >>

evaluate(inferred_tree, inferred_migratory_events, true_events, outbreak_origin) ==
    LET inferred == InferredEarliest(inferred_migratory_events, inferred_tree)
        truth == TrueEarliest(true_events, outbreak_origin)
        time_correct == { d \in DOMAIN truth : TimeCorrect(inferred, truth, d) }
        source_correct ==
            { d \in DOMAIN truth : SourceCorrect(inferred, truth, d, outbreak_origin) }
        score == ScoreOver(inferred, time_correct)
        num_demes == Cardinality(DOMAIN truth)
    IN  IF Len(true_events) = 0
        THEN Raised("ZeroDivisionError", "division by zero")
        ELSE [ kind |-> "return",
               evaluations |->
                 [ num_inferred_events |-> Len(inferred_migratory_events),
                   prop_true_events_inferred |->
                       << Len(inferred_migratory_events), Len(true_events) >>,
                   earliest_intro_time_eval_count |->
                       << Cardinality(time_correct), num_demes >>,
                   earliest_intro_time_eval_score |->
                       << score[1], score[2] * num_demes >>,
                   earliest_intro_source_eval_count |->
                       << Cardinality(source_correct), num_demes >> ] ]

\* The events run_inference stored before it evaluates: lineages extracted,
\* sorted by time.
StoredEvents(tree) ==
    SortedByTime(EnumerateFrom(tree, Traverse(tree, << 1 >>), 1, << >>, TRUE))

\* The ground truth: up to MaxTrueEvents events (time, origin, destination)
\* between different demes of the outbreak.
TrueEvents == { e \in Days \X Demes \X Demes : e[2] # e[3] }

InitEvaluate ==
    /\ InitInference
    /\ target_proportion = None
    /\ target_number = None
    /\ \E n \in 1..MaxEvalNodes, k \in 0..MaxTrueEvents :
          \E p \in ParentsOfSize(n), d \in [ 1..n -> TreeDemes ], t \in [ 1..n -> Days ],
             true_events \in [ 1..k -> TrueEvents ], outbreak_origin \in Demes :
             /\ \A i \in 2..n : t[p[i]] <= t[i]
             /\ call = [ function |-> "evaluate",
                         inferred_tree |-> [ parent |-> p, deme |-> d, time |-> t ],
                         inferred_migratory_events |->
                             StoredEvents([ parent |-> p, deme |-> d, time |-> t ]),
                         true_events |-> true_events,
                         outbreak_origin |-> outbreak_origin ]
    /\ result = NotRun
    /\ result2 = NotRun
    /\ np_random = 0

\* The inference is evaluated against the ground truth.
Evaluate ==
    /\ call.function = "evaluate"
    /\ result = NotRun
    /\ result' = evaluate(call.inferred_tree, call.inferred_migratory_events,
                          call.true_events, call.outbreak_origin)
    /\ UNCHANGED << rows, nextId, pc, inference, head_cache, response, allocVars, inflight, call, result2, np_random >>

SpecEvaluate == InitEvaluate /\ [][Evaluate]_vars

\* ------------------------------------------------------------ Python floats
\* thin_tree computes its budgets with Python floats (IEEE doubles, results
\* rounded to nearest, ties to even).  A natural number of any size is the
\* sequence of its digits in base Limb, least significant first, without
\* leading zero digits; a double is m * 2 ^ e with m = 0 or m of 53 bits.
Limb == 2 ^ 15

RECURSIVE BigTrim(_)
BigTrim(a) ==
    IF a = << >> THEN a
    ELSE IF a[Len(a)] = 0 THEN BigTrim(SubSeq(a, 1, Len(a) - 1)) ELSE a

RECURSIVE BigFromInt(_)
BigFromInt(n) == IF n = 0 THEN << >> ELSE << n % Limb >> \o BigFromInt(n \div Limb)

RECURSIVE BigToInt(_)
BigToInt(a) == IF a = << >> THEN 0 ELSE a[1] + Limb * BigToInt(Tail(a))

Digit(a, k) == IF k <= Len(a) THEN a[k] ELSE 0

RECURSIVE AddFrom(_, _, _, _)
AddFrom(a, b, k, carry) ==
    IF k > Len(a) /\ k > Len(b)
    THEN IF carry = 0 THEN << >> ELSE << carry >>
    ELSE LET t == Digit(a, k) + Digit(b, k) + carry
         IN  << t % Limb >> \o AddFrom(a, b, k + 1, t \div Limb)

BigAdd(a, b) == BigTrim(AddFrom(a, b, 1, 0))

\* a - b for a >= b
RECURSIVE SubFrom(_, _, _, _)
SubFrom(a, b, k, borrow) ==
    IF k > Len(a)
    THEN << >>
    ELSE LET t == a[k] - Digit(b, k) - borrow
         IN  << (t + Limb) % Limb >> \o SubFrom(a, b, k + 1, IF t < 0 THEN 1 ELSE 0)

BigSub(a, b) == BigTrim(SubFrom(a, b, 1, 0))

BigLess(a, b) ==
    IF Len(a) # Len(b)
    THEN Len(a) < Len(b)
    ELSE LET differ == { k \in 1..Len(a) : a[k] # b[k] }
         IN  /\ differ # {}
             /\ LET k == CHOOSE x \in differ : \A y \in differ : y <= x
                IN  a[k] < b[k]

\* a * d for a digit d
RECURSIVE MulSmallFrom(_, _, _, _)
MulSmallFrom(a, d, k, carry) ==
    IF k > Len(a)
    THEN IF carry = 0 THEN << >> ELSE << carry >>
    ELSE LET t == a[k] * d + carry
         IN  << t % Limb >> \o MulSmallFrom(a, d, k + 1, t \div Limb)

BigMulSmall(a, d) == BigTrim(MulSmallFrom(a, d, 1, 0))

\* a * Limb ^ n
BigShiftLimbs(a, n) == IF a = << >> THEN a ELSE [ k \in 1..n |-> 0 ] \o a

RECURSIVE BigMul(_, _)
BigMul(a, b) ==
    IF b = << >>
    THEN << >>
    ELSE BigAdd(BigMulSmall(a, b[1]), BigShiftLimbs(BigMul(a, Tail(b)), 1))

\* a * 2 ^ k, and a \div 2 ^ k
BigShl(a, k) == BigMulSmall(BigShiftLimbs(a, k \div 15), 2 ^ (k % 15))

BigShr(a, k) ==
    LET b == SubSeq(a, (k \div 15) + 1, Len(a))
        r == k % 15
    IN  BigTrim([ i \in 1..Len(b) |->
                    (b[i] \div 2 ^ r) + (Digit(b, i + 1) % 2 ^ r) * 2 ^ (15 - r) ])

\* a % 2 ^ k = 0
BigLowZero(a, k) ==
    /\ \A i \in 1..(k \div 15) : Digit(a, i) = 0
    /\ Digit(a, (k \div 15) + 1) % 2 ^ (k % 15) = 0

\* bit i of a, bit 0 the lowest
BigBit(a, i) == (Digit(a, (i \div 15) + 1) \div 2 ^ (i % 15)) % 2

BitLen(a) ==
    IF a = << >>
    THEN 0
    ELSE 15 * (Len(a) - 1)
           + (CHOOSE n \in 1..15 : 2 ^ (n - 1) <= a[Len(a)] /\ a[Len(a)] < 2 ^ n)

\* 2 * a + bit
BigDouble(a, bit) == BigTrim(MulSmallFrom(a, 2, 1, bit))

\* Long division, bit by bit: q and r are quotient and remainder of the
\* bits of a above bit i - 1.
RECURSIVE DivFrom(_, _, _, _, _)
DivFrom(a, b, i, q, r) ==
    IF i = 0
    THEN << q, r >>
    ELSE LET r2 == BigDouble(r, BigBit(a, i - 1))
             fits == ~BigLess(r2, b)
             q3 == BigDouble(q, IF fits THEN 1 ELSE 0)
             r3 == IF fits THEN BigSub(r2, b) ELSE r2
         IN  IF Len(q3) + Len(r3) >= 0 THEN DivFrom(a, b, i - 1, q3, r3) ELSE << >>

\* << a \div b, a % b >> for b > 0
BigDivMod(a, b) ==
    LET i == IF BitLen(a) < BitLen(b) THEN 0 ELSE BitLen(a) - BitLen(b) + 1
    IN  DivFrom(a, b, i, << >>, BigShr(a, i))

FloatZero == [ m |-> << >>, e |-> 0 ]

\* The double nearest to (n + d) * 2 ^ e, ties to even, where 0 <= d < 1 and
\* d # 0 exactly when `inexact`.
RoundToDouble(n, e, inexact) ==
    LET len == BitLen(n)
        s == len - 53
        q == BigShr(n, s)
        up == /\ BigBit(n, s - 1) = 1
              /\ \/ inexact
                 \/ ~BigLowZero(n, s - 1)
                 \/ BigBit(q, 0) = 1
        q2 == IF up THEN BigAdd(q, << 1 >>) ELSE q
    IN  IF n = << >> THEN FloatZero
        ELSE IF len <= 53 THEN [ m |-> BigShl(n, 53 - len), e |-> e - (53 - len) ]
        ELSE IF BitLen(q2) = 54 THEN [ m |-> BigShr(q2, 1), e |-> e + s + 1 ]
        ELSE [ m |-> q2, e |-> e + s ]

\* float(n) for an int n >= 0
FromInt(n) == RoundToDouble(BigFromInt(n), 0, FALSE)

\* x + y, x * y, x / y (y # 0.0) and int(x) for doubles >= 0
FloatAdd(x, y) ==
    IF x.m = << >> THEN y
    ELSE IF y.m = << >> THEN x
    ELSE LET e == IF x.e < y.e THEN x.e ELSE y.e
         IN  RoundToDouble(BigAdd(BigShl(x.m, x.e - e), BigShl(y.m, y.e - e)), e, FALSE)

FloatMul(x, y) ==
    IF x.m = << >> \/ y.m = << >>
    THEN FloatZero
    ELSE RoundToDouble(BigMul(x.m, y.m), x.e + y.e, FALSE)

FloatDiv(x, y) ==
    IF x.m = << >>
    THEN FloatZero
    ELSE LET qr == BigDivMod(BigShl(x.m, 56), y.m)
         IN  RoundToDouble(qr[1], x.e - 56 - y.e, qr[2] # << >>)

FloatToInt(x) ==
    IF x.m = << >> THEN 0
    ELSE IF x.e >= 0 THEN BigToInt(BigShl(x.m, x.e))
    ELSE BigToInt(BigShr(x.m, -x.e))

\* float(s) ** 1.1 for s = 0, 1, 2, ...: the doubles nearest to the powers.
PowersOfOnePointOne ==
    <<
       [ m |-> <<  >>, e |-> 0 ],
       [ m |-> << 0, 0, 0, 128 >>, e |-> -52 ],
       [ m |-> << 1636, 23626, 6127, 137 >>, e |-> -51 ],
       [ m |-> << 19666, 27525, 9687, 214 >>, e |-> -51 ],
       [ m |-> << 26229, 3445, 1094, 147 >>, e |-> -50 ],
       [ m |-> << 167, 5385, 30770, 187 >>, e |-> -50 ],
       [ m |-> << 692, 31241, 22163, 229 >>, e |-> -50 ],
       [ m |-> << 11152, 32068, 1938, 136 >>, e |-> -49 ],
       [ m |-> << 810, 30719, 19217, 157 >>, e |-> -49 ],
       [ m |-> << 16514, 1501, 12624, 179 >>, e |-> -49 ],
       [ m |-> << 12166, 28278, 14026, 201 >>, e |-> -49 ],
       [ m |-> << 12180, 16378, 22700, 223 >>, e |-> -49 ],
       [ m |-> << 3134, 20085, 5277, 246 >>, e |-> -49 ],
       [ m |-> << 10506, 8592, 13395, 134 >>, e |-> -48 ],
       [ m |-> << 6557, 27834, 27020, 145 >>, e |-> -48 ],
       [ m |-> << 9682, 4407, 10562, 157 >>, e |-> -48 ],
       [ m |-> << 21358, 10098, 29393, 168 >>, e |-> -48 ],
       [ m |-> << 23267, 28753, 17835, 180 >>, e |-> -48 ],
       [ m |-> << 10188, 11539, 8531, 192 >>, e |-> -48 ],
       [ m |-> << 17340, 21404, 1366, 204 >>, e |-> -48 ],
       [ m |-> << 15343, 1848, 29008, 215 >>, e |-> -48 ],
       [ m |-> << 7522, 17646, 25827, 227 >>, e |-> -48 ],
       [ m |-> << 30666, 14163, 24509, 239 >>, e |-> -48 ],
       [ m |-> << 20117, 10504, 24977, 251 >>, e |-> -48 ],
       [ m |-> << 30481, 18338, 29964, 131 >>, e |-> -47 ],
       [ m |-> << 13985, 5068, 31882, 137 >>, e |-> -47 ],
       [ m |-> << 31830, 21118, 1827, 144 >>, e |-> -47 ],
       [ m |-> << 30277, 13498, 5309, 150 >>, e |-> -47 ],
       [ m |-> << 14701, 25831, 9533, 156 >>, e |-> -47 ],
       [ m |-> << 28046, 27883, 14476, 162 >>, e |-> -47 ],
       [ m |-> << 5838, 8135, 20116, 168 >>, e |-> -47 ],
       [ m |-> << 16136, 1555, 26431, 174 >>, e |-> -47 ],
       [ m |-> << 15311, 19710, 633, 181 >>, e |-> -47 ]
    >>

\* alpha is given in tenths: 10 is the float 1.0 (the default of thin_tree),
\* 11 the float 1.1 (what populate_inferred_tree_json passes), 20 the float
\* 2.0.
Alphas == { 10, 11, 20 }

\* size ** alpha for an int size >= 0 and a float alpha
Pow(size, alpha) ==
    CASE alpha = 10 -> FromInt(size)
      [] alpha = 20 -> FromInt(size * size)
      [] alpha = 11 -> PowersOfOnePointOne[size + 1]

\* ---------------------------------------------------------------- thin_tree
\* thin_tree removes leaves of the inferred tree until a target size, pool by
\* pool: the exterior leaves first, then each qualifying lineage.  The tree
\* carries a branch length per node (dist); a node deleted from the tree has
\* parent -1.  A call in progress is the record of its local variables
\* and its position: `at` is "while" before the test of a pool's removal
\* loop and "for" inside a pass over the sorted leaves.

ThinDemes == 0..(NumThinDemes - 1)

\* Nodes in preorder from the nodes of `stack`.
RECURSIVE Preorder(_, _)
Preorder(tree, stack) ==
    IF stack = << >>
    THEN << >>
    ELSE << Head(stack) >> \o Preorder(tree, Children(tree, Head(stack)) \o Tail(stack))

\* tree.get_leaves(): the childless nodes, in preorder.
get_leaves(tree) ==
    LET IsLeaf(n) == Children(tree, n) = << >>
    IN  SelectSeq(Preorder(tree, << 1 >>), IsLeaf)

\* leaf.delete(preserve_branch_length=True) of a leaf with a parent: the leaf
\* is removed from its parent; a parent left with fewer than two children is
\* deleted in turn unless it is the root, its only child moving to the
\* grandparent with the parent's branch length added to its own.
delete(tree, leaf) ==
    LET parent == tree.parent[leaf]
        removed == [ tree EXCEPT !.parent[leaf] = -1 ]
        left == Children(removed, parent)
        up == tree.parent[parent]
    IN  IF Len(left) >= 2 \/ up = 0
        THEN removed
        ELSE IF Len(left) = 1
             THEN [ removed EXCEPT !.parent[parent] = -1,
                                   !.parent[left[1]] = up,
                                   !.dist[left[1]] = @ + tree.dist[parent] ]
             ELSE [ removed EXCEPT !.parent[parent] = -1 ]

\* sorted(..., key=size, reverse=True): stable, equal sizes keep their order.
RECURSIVE SortedBySize(_)
SortedBySize(events) ==
    IF events = << >>
    THEN << >>
    ELSE LET init == SortedBySize(SubSeq(events, 1, Len(events) - 1))
             last == events[Len(events)]
             k == Cardinality({ i \in 1..Len(init) : init[i].size >= last.size })
         IN  SubSeq(init, 1, k) \o << last >> \o SubSeq(init, k + 1, Len(init))

\* sorted(available_leaves, key=dist): stable, ascending branch length.
RECURSIVE SortedByDist(_, _)
SortedByDist(tree, names) ==
    IF names = << >>
    THEN << >>
    ELSE LET init == SortedByDist(tree, SubSeq(names, 1, Len(names) - 1))
             last == names[Len(names)]
             k == Cardinality({ i \in 1..Len(init) : tree.dist[init[i]] <= tree.dist[last] })
         IN  SubSeq(init, 1, k) \o << last >> \o SubSeq(init, k + 1, Len(init))

\* sum([size ** alpha for ...]) over the first k sizes: the floats are added
\* one after the other from 0.  (From CPython 3.12 on sum() compensates the
\* rounding errors of floats; the two sums are the same double for up to two
\* terms and for every list of sizes adding up to 8 or less.)
RECURSIVE WeightedSizeUpTo(_, _, _)
WeightedSizeUpTo(sizes, k, alpha) ==
    IF k = 0
    THEN FloatZero
    ELSE FloatAdd(WeightedSizeUpTo(sizes, k - 1, alpha), Pow(sizes[k], alpha))

\* total_weighted_lineage_size + weighted_exterior_size
ThinningWeight(sizes, exterior, alpha) ==
    FloatAdd(WeightedSizeUpTo(sizes, Len(sizes), alpha), Pow(exterior, alpha))

\* The calls within the bounds: alpha, the sizes of the qualifying lineages,
\* largest first, the number of exterior leaves and the number of leaves to
\* remove, for a tree of at most MaxThinLeaves leaves and a weight that is
\* not 0.0.  Their factors and budgets are computed once.
MaxThinLeaves == IF MaxThinNodes > MaxLiveThinNodes THEN MaxThinNodes ELSE MaxLiveThinNodes

RECURSIVE SumOfSizes(_)
SumOfSizes(sizes) == IF sizes = << >> THEN 0 ELSE Head(sizes) + SumOfSizes(Tail(sizes))

SizeLists ==
    { sizes \in UNION { [ 1..k -> 1..MaxThinLeaves ] : k \in 0..MaxThinLeaves } :
         /\ \A i \in 1..(Len(sizes) - 1) : sizes[i] >= sizes[i + 1]
         /\ SumOfSizes(sizes) <= MaxThinLeaves }

ThinningCalls ==
    UNION { { << alpha, sizes, exterior, removal >> :
                 exterior \in { x \in 0..(MaxThinLeaves - SumOfSizes(sizes)) :
                                  sizes # << >> \/ x > 0 } } :
               alpha \in Alphas, sizes \in SizeLists, removal \in 1..MaxThinLeaves }

ThinningFactors ==
    [ c \in ThinningCalls |-> FloatDiv(FromInt(c[4]), ThinningWeight(c[2], c[3], c[1])) ]
        @@ << >>

\* (initial_tree_size - target_size) / (total_weighted_lineage_size +
\* weighted_exterior_size), for a weight that is not 0.0
ThinningFactor(alpha, sizes, exterior, removal) ==
    IF << alpha, sizes, exterior, removal >> \in DOMAIN ThinningFactors
    THEN ThinningFactors[<< alpha, sizes, exterior, removal >>]
    ELSE FloatDiv(FromInt(removal), ThinningWeight(sizes, exterior, alpha))

ThinningBudgets ==
    [ k \in UNION { { << ThinningFactors[c], c[1], size >> :
                        size \in { c[3] } \cup { c[2][i] : i \in DOMAIN c[2] } } :
                    c \in ThinningCalls }
        |-> FloatToInt(FloatMul(k[1], Pow(k[3], k[2]))) ] @@ << >>

\* int(global_thinning_factor * size ** alpha)
RemovalBudget(s, size) ==
    IF << s.global_thinning_factor, s.alpha, size >> \in DOMAIN ThinningBudgets
    THEN ThinningBudgets[<< s.global_thinning_factor, s.alpha, size >>]
    ELSE FloatToInt(FloatMul(s.global_thinning_factor, Pow(size, s.alpha)))

\* The names of a sequence without those of a set.
Without(names, gone) ==
    LET Kept(n) == n \notin gone
    IN  SelectSeq(names, Kept)

\* The next pool: the lineages in sorted order after the exterior leaves, and
\* the return of the tree after the last of them.
next_pool(s) ==
    IF s.pool = Len(s.lineages)
    THEN [ kind |-> "return", tree |-> s.tree ]
    ELSE [ s EXCEPT !.pool = @ + 1,
                    !.num_to_remove = RemovalBudget(s, s.lineages[s.pool + 1].size),
                    !.skipped_leaves = {},
                    !.at = "while",
                    !.sorted_leaves = << >>,
                    !.removed_any = FALSE ]

\* The leaves of the pool's dictionary: exterior_leaves, or all_leaves for a
\* lineage.
PoolLeaves(s) == IF s.pool = 0 THEN s.exterior_leaves ELSE s.all_leaves

\* The lines before the loops: the anchors, the pools and the factor.
thin_start(tree, inferred_migratory_events, target_size, min_lineage_size, alpha) ==
    LET events == inferred_migratory_events
        anchor_nodes == { events[i].origin_node : i \in DOMAIN events }
                           \cup { events[i].destination_node : i \in DOMAIN events }
                           \cup { 1 }
        all_leaves == get_leaves(tree)
        initial_tree_size == Len(all_leaves)
        lineage_members ==
            UNION { { events[i].members[j] : j \in DOMAIN events[i].members } :
                       i \in DOMAIN events }
        StartsWithLeaf(name) == tree.named_leaf[name]
        exterior_leaves == SelectSeq(Without(all_leaves, lineage_members), StartsWithLeaf)
        Qualifies(event) == event.size >= min_lineage_size
        sorted_inferred_migratory_events == SortedBySize(SelectSeq(events, Qualifies))
        sizes == [ i \in DOMAIN sorted_inferred_migratory_events |->
                     sorted_inferred_migratory_events[i].size ]
        total_weighted_lineage_size == WeightedSizeUpTo(sizes, Len(sizes), alpha)
        weighted_exterior_size == Pow(Len(exterior_leaves), alpha)
        s == [ kind |-> "thinning",
               tree |-> tree,
               anchor_nodes |-> anchor_nodes,
               all_leaves |-> all_leaves,
               exterior_leaves |-> exterior_leaves,
               lineages |-> sorted_inferred_migratory_events,
               global_thinning_factor |->
                   ThinningFactor(alpha, sizes, Len(exterior_leaves),
                                  initial_tree_size - target_size),
               alpha |-> alpha,
               pool |-> 0,
               num_to_remove |-> 0,
               skipped_leaves |-> {},
               at |-> "while",
               sorted_leaves |-> << >>,
               removed_any |-> FALSE ]
    IN  IF initial_tree_size <= target_size
        THEN [ kind |-> "return", tree |-> tree ]
        ELSE IF FloatAdd(total_weighted_lineage_size, weighted_exterior_size) = FloatZero
             THEN Raised("ZeroDivisionError", "float division by zero")
             ELSE [ s EXCEPT !.num_to_remove = RemovalBudget(s, Len(exterior_leaves)) ]

\* The test of the while loop and the head of a pass: the leaves of the pool
\* not skipped yet, sorted by branch length.
pass_begins(s) ==
    LET InPool(n) == s.pool = 0 \/ \E j \in DOMAIN s.lineages[s.pool].members :
                                      s.lineages[s.pool].members[j] = n
        available_leaves == Without(SelectSeq(PoolLeaves(s), InPool), s.skipped_leaves)
    IN  IF s.num_to_remove <= 0 \/ available_leaves = << >>
        THEN next_pool(s)
        ELSE [ s EXCEPT !.at = "for",
                        !.sorted_leaves = SortedByDist(s.tree, available_leaves),
                        !.removed_any = FALSE ]

\* The end of a pass: the loop goes on if the pass removed a leaf.
pass_ends(s) ==
    IF s.removed_any
    THEN [ s EXCEPT !.at = "while", !.sorted_leaves = << >>, !.removed_any = FALSE ]
    ELSE next_pool(s)

\* A step that removes the leaf whatever its parent.
leaf_step_any_parent(s) ==
    LET leaf_name == Head(s.sorted_leaves)
        removed == [ s EXCEPT !.tree = delete(s.tree, leaf_name),
                              !.num_to_remove = @ - 1,
                              !.exterior_leaves = Without(@, { leaf_name }),
                              !.all_leaves = Without(@, { leaf_name }),
                              !.removed_any = TRUE,
                              !.sorted_leaves = Tail(@) ]
    IN  IF s.tree.parent[leaf_name] = 0
        THEN Raised("AttributeError", "'NoneType' object has no attribute 'name'")
        ELSE IF removed.num_to_remove <= 0 \/ removed.sorted_leaves = << >>
             THEN pass_ends(removed)
             ELSE removed

\* A step that removes the leaf and leaves the budget as it was.
leaf_step_budget_kept(s) ==
    LET leaf_name == Head(s.sorted_leaves)
        skipped == [ s EXCEPT !.skipped_leaves = @ \cup { leaf_name },
                              !.sorted_leaves = Tail(@) ]
        removed == [ s EXCEPT !.tree = delete(s.tree, leaf_name),
                              !.exterior_leaves = Without(@, { leaf_name }),
                              !.all_leaves = Without(@, { leaf_name }),
                              !.removed_any = TRUE,
                              !.sorted_leaves = Tail(@) ]
    IN  IF s.tree.parent[leaf_name] = 0
        THEN Raised("AttributeError", "'NoneType' object has no attribute 'name'")
        ELSE IF s.tree.parent[leaf_name] \in s.anchor_nodes
             THEN IF skipped.sorted_leaves = << >> THEN pass_ends(skipped) ELSE skipped
             ELSE IF removed.sorted_leaves = << >> THEN pass_ends(removed) ELSE removed

\* One turn of the loop over the sorted leaves: a leaf no longer in the
\* pool's dictionary is passed over, a leaf under an anchor node is marked as
\* skipped, any other leaf is deleted from the tree and the dictionaries; the
\* loop is left when the budget is used up.
leaf_step(s) ==
    LET leaf_name == Head(s.sorted_leaves)
        passed == [ s EXCEPT !.sorted_leaves = Tail(@) ]
        skipped == [ s EXCEPT !.skipped_leaves = @ \cup { leaf_name },
                              !.sorted_leaves = Tail(@) ]
        removed == [ s EXCEPT !.tree = delete(s.tree, leaf_name),
                              !.num_to_remove = @ - 1,
                              !.exterior_leaves = Without(@, { leaf_name }),
                              !.all_leaves = Without(@, { leaf_name }),
                              !.removed_any = TRUE,
                              !.sorted_leaves = Tail(@) ]
    IN  IF \A j \in DOMAIN PoolLeaves(s) : PoolLeaves(s)[j] # leaf_name
        THEN IF passed.sorted_leaves = << >> THEN pass_ends(passed) ELSE passed
        ELSE IF s.tree.parent[leaf_name] = 0
             THEN Raised("AttributeError", "'NoneType' object has no attribute 'name'")
             ELSE IF s.tree.parent[leaf_name] \in s.anchor_nodes
                  THEN IF skipped.sorted_leaves = << >> THEN pass_ends(skipped) ELSE skipped
                  ELSE IF removed.num_to_remove <= 0 \/ removed.sorted_leaves = << >>
                       THEN pass_ends(removed)
                       ELSE removed

\* The loops run from a position to the return or the error.
RECURSIVE RunThinning(_)
RunThinning(s) ==
    IF s.kind # "thinning"
    THEN s
    ELSE RunThinning(IF s.at = "while" THEN pass_begins(s) ELSE leaf_step(s))

thin_tree(tree, inferred_migratory_events, target_size, min_lineage_size, alpha) ==
    RunThinning(thin_start(tree, inferred_migratory_events, target_size,
                           min_lineage_size, alpha))

\* populate_inferred_tree_json passes the tree of the inference, its stored
\* events and alpha = 1.1.  The nodes of a stored tree are named leaf_<n> or
\* innode_<n>: named_leaf tells of a childless node whether its name starts
\* with 'leaf' (the name of a node that has children is never looked at).
ThinCalled(max_nodes, max_dist) ==
    \E n \in 1..max_nodes :
       \E p \in ParentsOfSize(n), d \in [ 1..n -> ThinDemes ], b \in [ 1..n -> 0..max_dist ],
          target_size \in 0..MaxThinTarget, min_lineage_size \in 1..MaxMinLineage,
          alpha \in Alphas :
          \E l \in { f \in [ 1..n -> BOOLEAN ] :
                        \A i \in 1..n : (\E j \in 1..n : p[j] = i) => ~f[i] } :
          call = [ function |-> "thin_tree",
                   tree |-> [ parent |-> p, deme |-> d,
                              time |-> [ i \in 1..n |-> 0 ], dist |-> b,
                              named_leaf |-> l ],
                   inferred_migratory_events |->
                       StoredEvents([ parent |-> p, deme |-> d,
                                      time |-> [ i \in 1..n |-> 0 ] ]),
                   target_size |-> target_size,
                   min_lineage_size |-> min_lineage_size,
                   alpha |-> alpha ]

InitThin ==
    /\ InitInference
    /\ target_proportion = None
    /\ target_number = None
    /\ ThinCalled(MaxThinNodes, MaxDist)
    /\ result = NotRun
    /\ result2 = NotRun
    /\ np_random = 0

\* thin_tree is called and reaches its first loop, returns or raises.
ThinTree ==
    /\ call.function = "thin_tree"
    /\ result = NotRun
    /\ result' = thin_start(call.tree, call.inferred_migratory_events, call.target_size,
                            call.min_lineage_size, call.alpha)
    /\ UNCHANGED << rows, nextId, pc, inference, head_cache, response, allocVars, inflight, call, result2, np_random >>

\* The test of a pool's removal loop and the head of a pass.
PassBegins ==
    /\ call.function = "thin_tree"
    /\ result.kind = "thinning"
    /\ result.at = "while"
    /\ result' = pass_begins(result)
    /\ UNCHANGED << rows, nextId, pc, inference, head_cache, response, allocVars, inflight, call, result2, np_random >>

\* One leaf of the pass.
LeafStep ==
    /\ call.function = "thin_tree"
    /\ result.kind = "thinning"
    /\ result.at = "for"
    /\ result' = leaf_step(result)
    /\ UNCHANGED << rows, nextId, pc, inference, head_cache, response, allocVars, inflight, call, result2, np_random >>

NextThin == ThinTree \/ PassBegins \/ LeafStep

SpecThin == InitThin /\ [][NextThin]_vars

\* The calls on the smaller trees, which the interpreter runs on to their
\* end.
InitThinLive ==
    /\ InitInference
    /\ target_proportion = None
    /\ target_number = None
    /\ ThinCalled(MaxLiveThinNodes, MaxLiveDist)
    /\ result = NotRun
    /\ result2 = NotRun
    /\ np_random = 0

\* thin_tree is called or inside its loops.
ThinRunning == call.function = "thin_tree" /\ result.kind \in { "none", "thinning" }

\* NextThin is enabled in the states of ThinRunning and in no other: the
\* turn taken from such a state gives a result, and one that differs from
\* the state's.
ThinRunningIsEnabled ==
    ThinRunning =>
        result # (IF result = NotRun
                  THEN thin_start(call.tree, call.inferred_migratory_events,
                                  call.target_size, call.min_lineage_size, call.alpha)
                  ELSE IF result.at = "while" THEN pass_begins(result)
                  ELSE leaf_step(result))

\* The interpreter goes on with a call it has begun: weak fairness of
\* NextThin, WF_vars(NextThin), with ENABLED << NextThin >>_vars written as
\* ThinRunning.
FairThinning == []<>(~ThinRunning) \/ []<><< NextThin >>_vars

SpecThinLive == InitThinLive /\ [][NextThin]_vars /\ FairThinning

\* ---------------------------------------------------------------- properties

\* C1: in every reachable state at most one stored Inference of the
\* simulation has a null head.
C1_SingleRoot == Cardinality(Roots(rows)) <= 1

\* A second root creation has just been attempted while a root with a
\* descendant is stored.
C1_Witness ==
    /\ response.op = "create"
    /\ response.code = 500
    /\ Cardinality(Roots(rows)) = 1
    /\ Cardinality(Stored) >= 2

\* The request just answered was refused with the single-root error and the
\* table is as it was.
RefusedUnchanged ==
    /\ response'.code = 500
    /\ response'.error = OnlyOneRoot
    /\ rows' = rows

\* C2: saving a new Inference with a null head while a root is stored, and
\* updating a stored non-root Inference to a null head while another root is
\* stored, fail with 'Only one root inference is allowed.' and leave every
\* stored row unchanged.
C2_SecondRootRefused ==
    [][ /\ (response'.op = "create" /\ Roots(rows) # {}) => RefusedUnchanged
        /\ \A i \in Stored :
              ( /\ response'.op = "update"
                /\ response'.target = i
                /\ rows[i].head # NoHead
                /\ Roots(rows) \ {i} # {} ) => RefusedUnchanged ]_vars

\* An update of a non-root inference to a null head has just been refused
\* while all MaxNodes inferences are stored.
C2_Witness ==
    /\ response.op = "update"
    /\ response.error = OnlyOneRoot
    /\ response.target \in Stored
    /\ rows[response.target].head # NoHead
    /\ Cardinality(Stored) = MaxNodes

\* Every stored chain is the head's chain followed by the own uuid.
ChainIsHeadChainPlusSelf ==
    \A i \in Stored :
        IF rows[i].head = NoHead
        THEN rows[i].inference_chain = << rows[i].uuid >>
        ELSE /\ rows[i].head \in Stored
             /\ rows[i].inference_chain =
                   rows[rows[i].head].inference_chain \o << rows[i].uuid >>

\* C3: every stored Inference has inference_chain = head.inference_chain +
\* [uuid] ([uuid] for the root), and no save of a stored node changes its
\* inference_chain.
C3_ChainImmutable ==
    /\ []ChainIsHeadChainPlusSelf
    /\ [][ \A i \in Stored \cap DOMAIN rows' :
              rows'[i].inference_chain = rows[i].inference_chain ]_vars

\* A node three levels below the root has been saved by every step of its
\* task and carries the chain [root, depth1, depth2, self].
C3_Witness ==
    \E i \in Stored :
        /\ Len(rows[i].inference_chain) = 4
        /\ rows[i].status = SUCCESS
        /\ rows[i].evaluations
        /\ rows[rows[rows[rows[i].head].head].head].head = NoHead
        /\ rows[i].inference_chain =
              << rows[rows[rows[i].head].head].head, rows[rows[i].head].head,
                 rows[i].head, i >>

\* The sample ids stored on the nodes reached from i by following head links.
AncestorSamples(table, i) ==
    UNION { OrEmpty(table[a].sample_ids) : a \in Ancestors(table, i) }

\* C4: when draw_samples is called on a stored inference at any depth, the
\* sample_ids it stores hold no sample id that is stored on a node between
\* its head and the root, whatever the allocation drew.
C4_DrawExcludesAncestors ==
    [][ \A i \in Stored :
          (call'.function = "draw_samples" /\ call'.self = i)
            => /\ rows'[i].sample_ids # None
               /\ OrEmpty(rows'[i].sample_ids) \cap AncestorSamples(rows, i) = {} ]_vars

\* draw_samples has been called on a node two levels below the root; the
\* allocation drew samples that the root holds and the head does not, and
\* none of them was stored.
C4_Witness ==
    /\ call.function = "draw_samples"
    /\ Len(rows[call.self].inference_chain) = 3
    /\ call.drawn # {}
    /\ call.drawn \subseteq
          OrEmpty(rows[rows[rows[call.self].head].head].sample_ids)
    /\ rows[rows[call.self].head].sample_ids = Some({})
    /\ rows[call.self].sample_ids = Some({})

\* C5: in every reachable state the sample_ids of a node share no element
\* with the sample_ids of any of its ancestors.
C5_NoReuseAcrossChain ==
    \A i \in Stored :
        OrEmpty(rows[i].sample_ids) \cap AncestorSamples(rows, i) = {}
\* C6: the status of a stored Inference changes only PENDING -> RUNNING (at
\* pick-up by its task), RUNNING -> SUCCESS or RUNNING -> FAILED, so a
\* SUCCESS or FAILED status never changes again.
C6_StatusTransitions ==
    [][ \A i \in Stored \cap DOMAIN rows' :
          \/ rows'[i].status = rows[i].status
          \/ /\ rows[i].status = PENDING
             /\ rows'[i].status = RUNNING
             /\ pc[i] = "queued"
          \/ /\ rows[i].status = RUNNING
             /\ rows'[i].status \in {SUCCESS, FAILED} ]_vars

\* One task has ended in SUCCESS and another in FAILED.
C6_Witness ==
    \E i, j \in Stored :
        /\ pc[i] = "done" /\ rows[i].status = SUCCESS
        /\ pc[j] = "done" /\ rows[j].status = FAILED

\* C7: a step of run_inference starts only when every earlier step has
\* stored its result, in the order draw_samples, run_dta_method,
\* enumerate_migratory_events, populate_inferred_tree_json, evaluate, and a
\* run ends in SUCCESS only with the result of evaluate stored.
C7_StepOrder ==
    \A i \in Stored :
        rows[i].samples_allocation =>
          /\ pc[i] \in {"dta", "events", "json", "evaluate", "finish"}
                => rows[i].sample_ids # None
          /\ pc[i] \in {"events", "json", "evaluate", "finish"}
                => rows[i].inferred_tree_file
          /\ pc[i] \in {"json", "evaluate", "finish"}
                => rows[i].inferred_migratory_events
          /\ pc[i] \in {"evaluate", "finish"} => rows[i].inferred_tree_json
          /\ pc[i] = "finish" => rows[i].evaluations
          /\ pc[i] \in {"none", "queued", "draw"} => rows[i].sample_ids = None
          /\ pc[i] = "dta" => ~rows[i].inferred_tree_file
          /\ pc[i] = "events" => ~rows[i].inferred_migratory_events
          /\ pc[i] = "json" => ~rows[i].inferred_tree_json
          /\ pc[i] = "evaluate" => ~rows[i].evaluations
          /\ rows[i].status = SUCCESS =>
                Artifacts(rows[i]) = << rows[i].sample_ids, TRUE, TRUE, TRUE, TRUE >>
                /\ rows[i].sample_ids # None

\* A run has stored the results of all five steps and ended in SUCCESS.
C7_Witness ==
    \E i \in Stored :
        /\ rows[i].samples_allocation
        /\ pc[i] = "done"
        /\ rows[i].status = SUCCESS
        /\ rows[i].evaluations

\* C8: when a step of run_inference does not return, the except clause is
\* entered with the stored row as it was, the status becomes FAILED there,
\* the exception reaches the task, the stored results of the earlier steps
\* stay as they are, and from then on no step stores anything.
C8_RaiseKeepsArtifacts ==
    [][ \A i \in Stored :
          /\ ( /\ pc[i] \in Steps
               /\ pc'[i] # pc[i]
               /\ pc'[i] # AfterStep(pc[i]) )
              => /\ pc'[i] = "except"
                 /\ i \in DOMAIN rows'
                 /\ rows'[i] = rows[i]
          /\ ( pc[i] = "except" /\ pc'[i] # pc[i] )
              => /\ pc'[i] = "raised"
                 /\ i \in DOMAIN rows'
                 /\ rows'[i].status = FAILED
                 /\ Artifacts(rows'[i]) = Artifacts(rows[i])
          /\ ( pc[i] \in {"raised", "done"} /\ rows[i].status = FAILED )
              => /\ pc'[i] \in {"raised", "done"}
                 /\ i \in DOMAIN rows' =>
                       /\ rows'[i].status = FAILED
                       /\ Artifacts(rows'[i]) = Artifacts(rows[i]) ]_vars

\* A run failed in populate_inferred_tree_json: the sample ids, the tree file
\* and the migratory events are stored, the tree JSON and the evaluations
\* are not, and the task has handled the exception.
C8_Witness ==
    \E i \in Stored :
        /\ pc[i] = "done"
        /\ rows[i].status = FAILED
        /\ rows[i].sample_ids # None
        /\ OrEmpty(rows[i].sample_ids) # {}
        /\ rows[i].inferred_tree_file
        /\ rows[i].inferred_migratory_events
        /\ ~rows[i].inferred_tree_json
        /\ ~rows[i].evaluations

\* The target of a delete request is PENDING or RUNNING, or a PENDING or
\* RUNNING inference has the target's uuid in its inference_chain.
DeleteMustRefuse(table, i) ==
    \/ table[i].status \in {PENDING, RUNNING}
    \/ \E j \in DOMAIN table :
          /\ table[j].status \in {PENDING, RUNNING}
          /\ \E k \in DOMAIN table[j].inference_chain :
                table[j].inference_chain[k] = table[i].uuid

\* C9: delete_inference answers with an error and changes nothing when the
\* target is PENDING or RUNNING or has a PENDING or RUNNING inference below
\* it; a row disappears only through a delete request that none of this
\* holds for.
C9_DeleteRefusal ==
    [][ /\ \A i \in Stored :
              ( /\ response'.op = "delete"
                /\ response'.target = i
                /\ DeleteMustRefuse(rows, i) )
              => /\ response'.code = 400
                 /\ rows' = rows
        /\ (Stored \ DOMAIN rows' # {})
              => /\ response'.op = "delete"
                 /\ response'.code = 204
                 /\ response'.target \in Stored \ DOMAIN rows'
                 /\ ~DeleteMustRefuse(rows, response'.target) ]_vars

\* A delete of a completed inference has just been refused because an
\* inference two levels below it is still RUNNING.
C9_Witness ==
    /\ response.op = "delete"
    /\ response.code = 400
    /\ response.target \in Stored
    /\ rows[response.target].status \in {SUCCESS, FAILED}
    /\ \E j \in Stored :
          /\ rows[j].status = RUNNING
          /\ Len(rows[j].inference_chain) = 3
          /\ rows[j].inference_chain[1] = response.target
          /\ rows[rows[j].head].status \in {SUCCESS, FAILED}

\* C10: once set_target_proportion or set_target_number has been called,
\* exactly one of target_proportion and target_number is non-null, whatever
\* setters are called afterwards.
C10_ExactlyOneTarget ==
    response.op \in {"set_target_proportion", "set_target_number"}
        => (target_proportion = None) # (target_number = None)

\* ------------------------------------------- allocation primitives: claims
AllocationPrimitives == SpatialPrimitives \cup TemporalPrimitives

\* The demes a primitive considers, as its first lines determine them.
TargetDemesOf(c) ==
    IF c.target_demes # None THEN c.target_demes[1]
    ELSE IF c.function = "even_spatial_allocation" THEN { r.deme : r \in c.samples_df }
    ELSE IF c.function = "uniform_population_spatial_allocation" THEN DOMAIN c.population_sizes
    ELSE DOMAIN c.case_incidence

\* The days of the window of a temporal primitive.
TargetDaysOf(c) == Earliest(c.time_range)..Latest(c.time_range, NumDays)

\* The filtered candidate pool: rows of the target demes, inside the window.
CandidatePool(c) ==
    IF c.function \in SpatialPrimitives
    THEN InDemes(c.samples_df, TargetDemesOf(c))
    ELSE InRange(InDemes(c.samples_df, TargetDemesOf(c)),
                 Earliest(c.time_range), Latest(c.time_range, NumDays))

\* The units an allocation is made over.
TargetUnits(c) ==
    IF c.function \in SpatialPrimitives THEN TargetDemesOf(c) ELSE TargetDaysOf(c)

\* The configured minimum (uniform_sample_temporal_allocation takes none).
MinimumOf(c) ==
    IF c.function \in SpatialPrimitives THEN c.min_number_per_deme
    ELSE IF c.function = "uniform_sample_temporal_allocation" THEN 0
    ELSE c.min_number_per_day

\* The total of the weighting source is zero: the incidence of the target
\* demes (inside the window, for the temporal primitives) or the population
\* of the target demes.
ZeroTotalWeight(c) ==
    CASE c.function = "uniform_case_spatial_allocation" ->
            \A d \in TargetDemesOf(c), t \in Days : c.case_incidence[d][t] = 0
      [] c.function \in { "uniform_case_temporal_allocation", "even_temporal_allocation" } ->
            \A d \in TargetDemesOf(c), t \in TargetDaysOf(c) : c.case_incidence[d][t] = 0
      [] c.function = "uniform_population_spatial_allocation" ->
            \A d \in TargetDemesOf(c) : c.population_sizes[d] = 0
      [] OTHER -> FALSE

AllocationDone == call.function \in AllocationPrimitives /\ result # NotRun

\* C11: when only target_proportion is given the target quota is
\* round(target_proportion * N), N the size of the filtered candidate pool;
\* when target_number is given it is the quota and target_proportion is
\* ignored.
C11_QuotaIsRoundedProportion ==
    (AllocationDone /\ result.kind = "return" /\ result.target_number # None) =>
        result.target_number =
            IF call.target_number # None THEN call.target_number
            ELSE Some(Round(call.target_proportion[1] * Cardinality(CandidatePool(call)),
                            PropDen))

\* C12: a primitive called with neither target_number nor target_proportion
\* fails with the configuration error, also when the candidate pool is empty
\* or the total weight is zero.
C12_NoTargetRaises ==
    (AllocationDone /\ call.target_proportion = None /\ call.target_number = None) =>
        result = Raised("ValueError", NoTarget)

\* Every target unit of the returned allocation is at least the minimum.
AtLeastMinimum ==
    \A u \in TargetUnits(call) :
        u \in DOMAIN result.value /\ result.value[u] >= MinimumOf(call)

\* C13 as stated: for every input, each target unit of the returned
\* allocation is >= the configured minimum.
C13_EveryUnitAtLeastMinimum ==
    (AllocationDone /\ result.kind = "return") => AtLeastMinimum

\* C13: when the candidate pool is not empty and the total weight is not
\* zero, each target unit of the returned allocation is >= the configured
\* minimum (an allocation returned for an empty pool or a zero total is all
\* zeros whatever the minimum).
C13_MinimumEnforced ==
    (AllocationDone /\ result.kind = "return"
        /\ CandidatePool(call) # {} /\ ~ZeroTotalWeight(call)) => AtLeastMinimum

\* A unit whose rounded allocation was below the minimum has been raised.
C13_Witness ==
    /\ AllocationDone
    /\ result.kind = "return"
    /\ result.rounded # None
    /\ MinimumOf(call) > 0
    /\ \E u \in TargetUnits(call) :
          result.rounded[1][u] < MinimumOf(call) /\ result.value[u] = MinimumOf(call)

\* C14: with a non-empty pool and a non-zero total weight, the sum of the
\* allocations before minimum enforcement differs from the target_number by
\* at most (number of units) / 2.
C14_SumWithinTolerance ==
    (AllocationDone /\ result.kind = "return" /\ result.rounded # None) =>
        LET rounded == result.rounded[1]
            total == SumOver(rounded, DOMAIN rounded)
            number == result.target_number[1]
            drift == IF total >= number THEN total - number ELSE number - total
        IN 2 * drift <= Cardinality(DOMAIN rounded)

\* C15: with an empty candidate pool, or a zero total incidence or
\* population, the primitive returns 0 for every unit and does not raise
\* (a target being given).
C15_ZeroAllocationNotRaise ==
    (AllocationDone
        /\ (call.target_proportion # None \/ call.target_number # None)
        /\ (CandidatePool(call) = {} \/ ZeroTotalWeight(call))) =>
        /\ result.kind = "return"
        /\ \A u \in DOMAIN result.value : result.value[u] = 0

\* -------------------------------------------------- draw primitives: claims
DrawPrimitives == { "weighted_temporal_sampling", "weighted_spatial_sampling" }

DrawReturned == call.function \in DrawPrimitives /\ result.kind = "return"

\* The candidate rows of unit u (a deme of the allocation for the draw by
\* deme, a day of the allocation for the draw by day).
AvailableFor(c, u) ==
    IF c.function = "weighted_temporal_sampling"
    THEN { r \in Rows(c.samples_df) : r.deme = u }
    ELSE { r \in Rows(c.samples_df) :
             r.time = u /\ (c.target_demes = None \/ r.deme \in c.target_demes[1]) }

\* The rows of unit u among the selected ones.
SelectedFor(c, u, selected) ==
    IF c.function = "weighted_temporal_sampling"
    THEN { r \in selected : r.deme = u }
    ELSE { r \in selected : r.time = u }

\* The units of the allocation of a call, and the quota of unit u.
UnitsOf(c) ==
    IF c.function = "weighted_temporal_sampling"
    THEN Keys(c.allocation)
    ELSE DOMAIN c.allocation

QuotaOf(c, u) ==
    IF c.function = "weighted_temporal_sampling"
    THEN Get(c.allocation, u)
    ELSE c.allocation[u]

\* Every candidate row of unit u has weight zero.
ZeroWeightUnit(c, u) ==
    \A r \in AvailableFor(c, u) :
        CASE c.weighting_strategy = "cases" -> c.case_incidence[1][r.deme][r.time] = 0
          [] c.weighting_strategy = "population" -> c.population_sizes[1][r.deme] = 0
          [] OTHER -> FALSE

\* C16 as stated: for every unit whose quota is >= the number of candidate
\* samples of the unit, the result contains exactly all of them, whatever
\* the seed and the weighting scheme.
C16_QuotaCoversUnitTakesAll ==
    DrawReturned =>
        \A u \in UnitsOf(call) :
            QuotaOf(call, u) >= Cardinality(AvailableFor(call, u)) =>
                SelectedFor(call, u, result.value) = AvailableFor(call, u)

\* C16: for every unit whose quota is >= the number of its candidate
\* samples and whose candidates do not all have weight zero, the result
\* contains exactly all of the unit's candidates, whatever the seed; a unit
\* whose candidates all have weight zero contributes nothing.
C16_TakesAllUnlessZeroWeight ==
    DrawReturned =>
        \A u \in UnitsOf(call) :
            QuotaOf(call, u) >= Cardinality(AvailableFor(call, u)) =>
                SelectedFor(call, u, result.value) =
                    IF ZeroWeightUnit(call, u) THEN {} ELSE AvailableFor(call, u)

\* A unit with two candidates, one of weight zero, and a quota that covers
\* both: both are in the result.
C16_Witness ==
    /\ DrawReturned
    /\ \E u \in UnitsOf(call) :
          /\ Cardinality(AvailableFor(call, u)) = 2
          /\ QuotaOf(call, u) >= 2
          /\ call.weighting_strategy = "cases"
          /\ \E r \in AvailableFor(call, u) : call.case_incidence[1][r.deme][r.time] = 0
          /\ ~ZeroWeightUnit(call, u)
          /\ SelectedFor(call, u, result.value) = AvailableFor(call, u)

\* C17: two runs of a draw with identical inputs and identical random_state
\* return identical selected sample sets.
C17_SameInputsSameDraw ==
    (call.function \in DrawPrimitives /\ result # NotRun /\ result2 # NotRun) =>
        result2 = result

\* ------------------------------------------------ strategy dispatch: claims

DispatchDone == call.function = "draw_samples" /\ result # NotRun

\* The functions registered under the triple of the call in the table of its
\* priority.
RegisteredFor(c) ==
    LET key == << c.temporal_strategy, c.spatial_strategy >>
        table == draw_function_map[c.allocation_priority]
    IN  { table[k] : k \in { x \in DOMAIN table : x = key } }

\* C18: dispatch is an exact key lookup in the table of the given priority:
\* for a registered (priority, temporal code, spatial code) triple the call
\* that draw_samples builds is a call of the registered composite function;
\* for an unregistered triple (any LN code, Joint priority with a non-null
\* spatial code, ...) draw_samples fails with the 'Invalid strategy
\* combination' error that names the priority, the temporal code and the
\* spatial code, and no function is called.
C18_DispatchIsExactLookup ==
    DispatchDone =>
        /\ \A f \in RegisteredFor(call) : call.draw_function = Some(f)
        /\ RegisteredFor(call) = {} =>
              /\ call.draw_function = None
              /\ result.kind = "raise"
              /\ result.exception = "ValueError"
              /\ result.message = << "Invalid strategy combination",
                                     call.allocation_priority,
                                     call.temporal_strategy,
                                     call.spatial_strategy >>
        /\ ( \/ call.temporal_strategy = Some("LN")
             \/ call.allocation_priority = "J" /\ call.spatial_strategy # None )
              => result.kind = "raise"
        /\ ( /\ call.allocation_priority = "S"
             /\ call.temporal_strategy = Some("UC")
             /\ call.spatial_strategy = Some("UP") )
              => call.draw_function = Some("sUP_tUC_draw")

\* A Joint allocation with a spatial code whose pair is registered under the
\* Temporal priority has been dispatched and was refused.
C18_Witness ==
    /\ DispatchDone
    /\ call.allocation_priority = "J"
    /\ call.temporal_strategy = Some("UC")
    /\ call.spatial_strategy = Some("UC")
    /\ call.draw_function = None
    /\ result = InvalidCombination("J", Some("UC"), Some("UC"))

\* The required parameters of the function the call resolves to that are
\* absent from the bag or None in it.
UnsetRequired(func, all_args) ==
    { name \in { Signature(func).required[i] : i \in 1..Len(Signature(func).required) } :
        name \notin DOMAIN all_args \/ all_args[name] = None }

\* The values of the bag under the declared parameters, in their order.
DeclaredValues(func, all_args) ==
    LET names == Signature(func).required \o Signature(func).defaults
    IN  [ i \in 1..Len(names) |-> all_args[names[i]] ]

\* C19: when draw_samples builds the call from the argument bag, only the
\* entries that the chosen function declares are passed, and a required
\* parameter that is absent from the bag or None in it makes draw_samples
\* fail with the 'missing required argument' error naming the parameter,
\* before the draw function is called.
C19_RequiredNoneIsMissing ==
    ( /\ DispatchDone
      /\ RegisteredFor(call) # {}
      /\ RegisteredFor(call) \cap UnlistedFunctions = {} ) =>
        \A f \in RegisteredFor(call) :
            IF UnsetRequired(f, call.all_args) # {}
            THEN /\ call.args = None
                 /\ \E name \in UnsetRequired(f, call.all_args) :
                       result = MissingArgument(name)
            ELSE /\ call.args = Some(DeclaredValues(f, call.all_args))
                 /\ call.kwargs = Some(<< >>)

\* -------------------------------------------------- migratory events: claims

EventsDone == call.function = "enumerate_migratory_events" /\ result # NotRun

\* The list the enumeration produced, stored or returned.
EmittedEvents ==
    IF call.save THEN result.inferred_migratory_events[1] ELSE result.value[1]

\* The non-root nodes whose deme differs from their parent's.
TransitionNodes(tree) ==
    { n \in 2..Len(tree.parent) : tree.deme[n] # tree.deme[tree.parent[n]] }

\* C20: enumerate_migratory_events emits exactly one event for each non-root
\* node whose deme differs from its parent's deme, with origin = the parent's
\* (name, deme, time) and destination = the node's, and no other event: a
\* tree without a deme transition gives the empty list, a tree with exactly
\* one transition gives exactly one event with that origin and destination.
C20_OneEventPerTransition ==
    EventsDone =>
        LET tree == call.inferred_tree
            events == EmittedEvents
        IN  /\ Len(events) = Cardinality(TransitionNodes(tree))
            /\ \A n \in TransitionNodes(tree) :
                  \E i \in 1..Len(events) :
                     /\ events[i].destination_node = n
                     /\ events[i].destination_deme = tree.deme[n]
                     /\ events[i].destination_time = tree.time[n]
                     /\ events[i].origin_node = tree.parent[n]
                     /\ events[i].origin_deme = tree.deme[tree.parent[n]]
                     /\ events[i].origin_time = tree.time[tree.parent[n]]
                     /\ \A j \in 1..Len(events) :
                           events[j].destination_node = n => j = i
            /\ \A i \in 1..Len(events) :
                  events[i].destination_node \in TransitionNodes(tree)

\* A tree of three levels whose only transition is below a node that has the
\* root's deme has been enumerated and gave one event.
C20_Witness ==
    /\ EventsDone
    /\ Len(call.inferred_tree.parent) = 3
    /\ call.inferred_tree.parent = << 0, 1, 2 >>
    /\ call.inferred_tree.deme = << 0, 0, 1 >>
    /\ Len(EmittedEvents) = 1
    /\ EmittedEvents[1].origin_node = 2
    /\ EmittedEvents[1].destination_node = 3

\* ---------------------------------------------- transmission lineages: claims

\* The nodes from `node` up to the root, `node` first.
RECURSIVE PathToRoot(_, _)
PathToRoot(tree, node) ==
    IF node = 0 THEN << >> ELSE << node >> \o PathToRoot(tree, tree.parent[node])

\* The nodes of the maximal connected subtree of one deme rooted at `top`:
\* the nodes m below or at `top` such that every node on the path from m up
\* to `top` has the deme of `top`.
SameDemeSubtree(tree, top) ==
    { m \in 1..Len(tree.parent) :
        LET path == PathToRoot(tree, m)
        IN  \E k \in 1..Len(path) :
              /\ path[k] = top
              /\ \A j \in 1..k : tree.deme[path[j]] = tree.deme[top] }

Leaves(tree) == { m \in 1..Len(tree.parent) : \A c \in 1..Len(tree.parent) : tree.parent[c] # m }

\* C25: with lineage extraction requested, each event's members is exactly
\* the node set of the maximal connected same-deme subtree rooted at the
\* event's destination node, each node once; size is the number of leaves
\* among the members and latest_sample_time the maximum time among them.
C25_LineageIsSameDemeSubtree ==
    (EventsDone /\ call.extract_tls) =>
        LET tree == call.inferred_tree
        IN  \A i \in 1..Len(EmittedEvents) :
              LET e == EmittedEvents[i]
                  lineage == SameDemeSubtree(tree, e.destination_node)
              IN  /\ { e.members[k] : k \in 1..Len(e.members) } = lineage
                  /\ Len(e.members) = Cardinality(lineage)
                  /\ e.size = Cardinality(lineage \cap Leaves(tree))
                  /\ \E m \in lineage : e.latest_sample_time = tree.time[m]
                  /\ \A m \in lineage : e.latest_sample_time >= tree.time[m]

\* A chain of four nodes with demes 0, 1, 1, 0: the lineage of the event into
\* node 2 holds nodes 2 and 3 and stops above node 4, which is of another
\* deme and the only leaf.
C25_Witness ==
    /\ EventsDone
    /\ call.extract_tls
    /\ call.inferred_tree.parent = << 0, 1, 2, 3 >>
    /\ call.inferred_tree.deme = << 0, 1, 1, 0 >>
    /\ \E i \in 1..Len(EmittedEvents) :
          /\ EmittedEvents[i].destination_node = 2
          /\ EmittedEvents[i].members = << 2, 3 >>
          /\ EmittedEvents[i].size = 0

\* ------------------------------------------------ provenance chain: claims

\* C29: after any sequence of submissions and successful deletions, every
\* stored Inference with a non-null head refers to a stored Inference, and
\* every uuid in its inference_chain is the uuid of a stored Inference.
C29_NoDanglingHeadOrChain ==
    \A i \in Stored :
        /\ rows[i].head # NoHead => rows[i].head \in Stored
        /\ \A k \in 1..Len(rows[i].inference_chain) :
              \E j \in Stored : rows[j].uuid = rows[i].inference_chain[k]

\* A deletion has succeeded and an inference with a head is still stored.
C29_Witness ==
    /\ response.op = "delete"
    /\ response.code = 204
    /\ \E i \in Stored : rows[i].head # NoHead /\ Len(rows[i].inference_chain) >= 2

\* The five steps of run_inference have all stored their result.
AllStepsCompleted(obj) ==
    /\ obj.sample_ids # None
    /\ obj.inferred_tree_file
    /\ obj.inferred_migratory_events
    /\ obj.inferred_tree_json
    /\ obj.evaluations

\* C30: every inference whose task has started (status RUNNING) eventually
\* has status SUCCESS or FAILED, provided each step returns or raises, and a
\* task that has ended left SUCCESS exactly when all five steps completed.
C30_RunningEventuallyTerminal ==
    /\ \A i \in Ids :
          (i \in Stored /\ rows[i].status = RUNNING)
             ~> (i \in Stored /\ rows[i].status \in {SUCCESS, FAILED})
    /\ [](\A i \in Ids :
            (pc[i] = "done" /\ i \in Stored) =>
                (rows[i].status = SUCCESS <=> AllStepsCompleted(rows[i])))

\* A task has ended with SUCCESS after its five steps.
C30_Witness ==
    \E i \in Stored :
        /\ pc[i] = "done"
        /\ rows[i].status = SUCCESS
        /\ AllStepsCompleted(rows[i])

\* ---------------------------------------------- concurrent requests: claims

\* Stored inferences that are PENDING or RUNNING and have the uuid of i in
\* their inference_chain.
InFlightUnder(i) ==
    { j \in Stored :
        /\ rows[j].status \in {PENDING, RUNNING}
        /\ \E k \in 1..Len(rows[j].inference_chain) :
              rows[j].inference_chain[k] = rows[i].uuid }

\* C23: in every interleaving of delete_inference with submissions and
\* status changes, no Inference is removed, directly or by the cascade on
\* head, while a PENDING or RUNNING inference that has it in its
\* inference_chain is stored.
C23_NoRemovalUnderInFlightDescendant ==
    [][ \A i \in Stored : i \notin Stored' => InFlightUnder(i) = {} ]_vars

\* C24: when root creations for the same simulation run concurrently, the
\* existence check and the insert being separate steps, no reachable state
\* has two roots.
C24_ConcurrentCreationsOneRoot ==
    \A i, j \in Roots(rows) : i = j

EvaluateDone == call.function = "evaluate" /\ result # NotRun

\* The demes the ground truth introduces the outbreak into.
TruthDemes ==
    { call.outbreak_origin } \cup { call.true_events[i][3] : i \in DOMAIN call.true_events }

\* The time of the true earliest introduction into deme d.
TruthTime(d) ==
    IF d = call.outbreak_origin
    THEN 0
    ELSE CHOOSE t \in Days :
            /\ \E i \in DOMAIN call.true_events :
                  call.true_events[i][3] = d /\ call.true_events[i][1] = t
            /\ \A i \in DOMAIN call.true_events :
                  call.true_events[i][3] = d => t <= call.true_events[i][1]

\* The demes with an inferred earliest introduction: the root's deme when it
\* is resolved, and the destination of every inferred migratory event.
IntroducedDemes ==
    ({ call.inferred_tree.deme[1] } \cap Demes)
       \cup { call.inferred_migratory_events[i].destination_deme :
                 i \in DOMAIN call.inferred_migratory_events }

\* The position of the inferred earliest introduction into deme d among the
\* inferred events: the first event of smallest origin time.
EarliestEventInto(d) ==
    CHOOSE i \in DOMAIN call.inferred_migratory_events :
        /\ call.inferred_migratory_events[i].destination_deme = d
        /\ \A j \in DOMAIN call.inferred_migratory_events :
              call.inferred_migratory_events[j].destination_deme = d =>
                 \/ call.inferred_migratory_events[i].origin_time
                       < call.inferred_migratory_events[j].origin_time
                 \/ /\ call.inferred_migratory_events[i].origin_time
                          = call.inferred_migratory_events[j].origin_time
                    /\ i <= j

\* << origin_time, destination_time >> of the inferred earliest introduction
\* into deme d; the root's deme is introduced between time 0 and the root.
IntroInterval(d) ==
    IF d = call.inferred_tree.deme[1]
    THEN << 0, call.inferred_tree.time[1] >>
    ELSE << call.inferred_migratory_events[EarliestEventInto(d)].origin_time,
            call.inferred_migratory_events[EarliestEventInto(d)].destination_time >>

\* The demes of the ground truth whose true time lies in the inferred
\* interval, ends included.
InIntervalDemes ==
    { d \in TruthDemes :
        /\ d \in IntroducedDemes
        /\ IntroInterval(d)[1] <= TruthTime(d)
        /\ TruthTime(d) <= IntroInterval(d)[2] }

\* The product of 1 + |destination_time - origin_time| over the demes of D.
RECURSIVE WidthProduct(_)
WidthProduct(D) ==
    IF D = {}
    THEN 1
    ELSE LET d == CHOOSE x \in D : TRUE
         IN  (1 + Abs(IntroInterval(d)[2] - IntroInterval(d)[1])) * WidthProduct(D \ {d})

\* The numerator, over the denominator WidthProduct(D), of the sum of
\* 1 / (1 + |destination_time - origin_time|) over the demes of D.
RECURSIVE WidthNumerator(_, _)
WidthNumerator(D, rest) ==
    IF rest = {}
    THEN 0
    ELSE LET d == CHOOSE x \in rest : TRUE
         IN  WidthProduct(D \ {d}) + WidthNumerator(D, rest \ {d})

\* C22: evaluate counts a deme of the ground truth as time-correct exactly
\* when an inferred earliest introduction exists for it and its true time t
\* satisfies origin_time <= t <= destination_time; each such deme adds 1 to
\* the time count and 1 / (1 + |destination_time - origin_time|) to the time
\* score, and every other deme adds 0 to both (the accumulators are reported
\* divided by the number of demes of the ground truth).
C22_TimeCorrectInclusiveInterval ==
    (EvaluateDone /\ result.kind = "return") =>
        /\ result.evaluations.earliest_intro_time_eval_count
              = << Cardinality(InIntervalDemes), Cardinality(TruthDemes) >>
        /\ result.evaluations.earliest_intro_time_eval_score[1]
                 * WidthProduct(InIntervalDemes) * Cardinality(TruthDemes)
              = WidthNumerator(InIntervalDemes, InIntervalDemes)
                   * result.evaluations.earliest_intro_time_eval_score[2]

\* A deme introduced by an event whose true time equals the inferred
\* destination time is counted, next to a deme outside its interval and a
\* deme without an inferred introduction.
C22_Witness ==
    /\ EvaluateDone
    /\ result.kind = "return"
    /\ \E d \in InIntervalDemes :
          /\ d # call.inferred_tree.deme[1]
          /\ TruthTime(d) = IntroInterval(d)[2]
          /\ IntroInterval(d)[1] < IntroInterval(d)[2]
    /\ \E d \in TruthDemes \cap IntroducedDemes : d \notin InIntervalDemes
    /\ TruthDemes \ IntroducedDemes # {}
    /\ result.evaluations.earliest_intro_time_eval_count = << 1, 3 >>
    /\ result.evaluations.earliest_intro_time_eval_score[1] * 6
          = result.evaluations.earliest_intro_time_eval_score[2]

\* The source of the inferred earliest introduction into deme d: null for
\* the root's deme.
InferredSource(d) ==
    IF d = call.inferred_tree.deme[1]
    THEN None
    ELSE Some(call.inferred_migratory_events[EarliestEventInto(d)].origin_deme)

\* The source of the true earliest introduction into deme d: null for the
\* outbreak origin, else the origin of the first event of smallest time.
TruthSource(d) ==
    IF d = call.outbreak_origin
    THEN None
    ELSE LET first == CHOOSE i \in DOMAIN call.true_events :
                         /\ call.true_events[i][3] = d
                         /\ \A j \in DOMAIN call.true_events :
                               call.true_events[j][3] = d =>
                                  \/ call.true_events[i][1] < call.true_events[j][1]
                                  \/ /\ call.true_events[i][1] = call.true_events[j][1]
                                     /\ i <= j
         IN  Some(call.true_events[first][2])

\* C28: evaluate counts a deme of the ground truth as source-correct exactly
\* when the source of its inferred earliest introduction equals the source of
\* its true earliest introduction; the outbreak origin (true source null) is
\* counted when the root of the inferred tree lies in it (inferred source
\* null) and not counted otherwise.
C28_SourceCorrectIffSourcesEqual ==
    (EvaluateDone /\ result.kind = "return") =>
        result.evaluations.earliest_intro_source_eval_count
           = << Cardinality({ d \in TruthDemes :
                                 /\ d \in IntroducedDemes
                                 /\ InferredSource(d) = TruthSource(d) }),
                Cardinality(TruthDemes) >>

\* A call of thin_tree inside its loops.
Thinning == call.function = "thin_tree" /\ result.kind = "thinning"

\* The root and the origin and destination nodes of the inferred events.
AnchorNodes ==
    { 1 } \cup { call.inferred_migratory_events[i].origin_node :
                    i \in DOMAIN call.inferred_migratory_events }
          \cup { call.inferred_migratory_events[i].destination_node :
                    i \in DOMAIN call.inferred_migratory_events }

\* The nodes of the tree: the root and the nodes attached to a parent.
Attached(tree) == { n \in DOMAIN tree.parent : tree.parent[n] >= 0 }

\* The leaves of the tree.
LeafSet(tree) ==
    { n \in Attached(tree) : \A c \in Attached(tree) : tree.parent[c] # n }

\* C21: thin_tree never deletes a leaf whose parent, at the moment of the
\* deletion, is an anchor node (the root or the origin or destination node of
\* an inferred migratory event), and no deletion brings the number of leaves
\* below target_size.
C21_NoLeafUnderAnchorDeleted ==
    [][ (Thinning /\ result'.kind \in { "thinning", "return" }) =>
           /\ \A n \in LeafSet(result.tree) :
                 n \notin Attached(result'.tree) =>
                    result.tree.parent[n] \notin AnchorNodes
           /\ Cardinality(LeafSet(result'.tree)) < Cardinality(LeafSet(result.tree)) =>
                 Cardinality(LeafSet(result'.tree)) >= call.target_size ]_vars

\* A thinned tree: leaves were deleted down to the target although a leaf
\* under an anchor node was among the candidates, and that leaf is kept.
C21_Witness ==
    /\ call.function = "thin_tree"
    /\ result.kind = "return"
    /\ Cardinality(LeafSet(call.tree)) = 2
    /\ Cardinality(LeafSet(result.tree)) = call.target_size
    /\ \E n \in LeafSet(result.tree) :
          /\ call.tree.parent[n] \in AnchorNodes
          /\ call.tree.dist[n] = 0
          /\ \E m \in LeafSet(call.tree) \ LeafSet(result.tree) : call.tree.dist[m] = 1

\* thin_tree has computed the budgets and deleted nothing yet.
ThinningBegun ==
    /\ Thinning
    /\ result.pool = 0
    /\ result.at = "while"
    /\ Len(result.all_leaves) = Cardinality(LeafSet(call.tree))

\* The budgets of the lineages from position i on.
RECURSIVE LineageBudgetsFrom(_)
LineageBudgetsFrom(i) ==
    IF i > Len(result.lineages)
    THEN 0
    ELSE RemovalBudget(result, result.lineages[i].size) + LineageBudgetsFrom(i + 1)

\* C26: on a tree with more leaves than target_size, the removal budgets of
\* the exterior pool and of the qualifying lineages sum to exactly
\* initial_leaf_count - target_size.
C26_BudgetsSumToExcess ==
    ThinningBegun =>
        result.num_to_remove + LineageBudgetsFrom(1)
           = Cardinality(LeafSet(call.tree)) - call.target_size

\* The position at the end of the pass that is under way in s: the next
\* test of the loop, the next pool, the return or the error.
RECURSIVE PassEnd(_)
PassEnd(s) ==
    IF s.kind = "thinning" /\ s.at = "for" THEN PassEnd(leaf_step(s)) ELSE s

\* The pool of s is left at position e.
PoolLeft(s, e) == e.kind = "return" \/ (e.kind = "thinning" /\ e.pool # s.pool)

\* thin_tree has returned or raised.
ThinEnded == call.function = "thin_tree" /\ result.kind \in { "return", "raise" }

\* C27: thin_tree terminates on every tree and event list; each pass of a
\* pool's removal loop removes at least one leaf and lowers the remaining
\* budget, or ends the thinning of that pool; and a pass whose candidates all
\* sit under anchor nodes ends the pool without an error.
C27_ThinningTerminates ==
    /\ [][ (Thinning /\ result.at = "while" /\ result'.kind = "thinning"
               /\ result'.at = "for") =>
              /\ PassEnd(result').kind # "raise" =>
                    \/ PoolLeft(result, PassEnd(result'))
                    \/ /\ PassEnd(result').num_to_remove < result.num_to_remove
                       /\ Len(PassEnd(result').all_leaves) < Len(result.all_leaves)
              /\ (\A j \in DOMAIN result'.sorted_leaves :
                     result.tree.parent[result'.sorted_leaves[j]] \in AnchorNodes) =>
                    PoolLeft(result, PassEnd(result')) ]_vars
    /\ (call.function = "thin_tree") ~> ThinEnded

\* A pool stopped early: leaves were deleted, every leaf left sits under an
\* anchor node, and the tree returned has more leaves than target_size.
C27_Witness ==
    /\ ThinEnded
    /\ result.kind = "return"
    /\ Cardinality(LeafSet(result.tree)) < Cardinality(LeafSet(call.tree))
    /\ Cardinality(LeafSet(result.tree)) > call.target_size
    /\ \A n \in LeafSet(result.tree) : result.tree.parent[n] \in AnchorNodes
    /\ \E n \in LeafSet(result.tree) : call.tree.parent[n] \notin AnchorNodes

====
